---- MODULE Spec2Model ----
(***************************************************************************)
(* TLA+ model of the TTL synchronisation script (nih-sparc/ttl-sync-script) *)
(* source/parse_json.py, source/bf_io.py, source/base.py.                   *)
(*                                                                          *)
(* The model follows one run of update_datasets over the snapshot: the      *)
(* Ledger ("sparc_curation_sync" records), the Progress Ledger (the resume  *)
(* file), the platform datasets with their models and records, and the      *)
(* per-dataset record cache.  Every remote call may fail when issued.       *)
(***************************************************************************)
EXTENDS Integers, Sequences, FiniteSets, Bags, TLC

-----------------------------------------------------------------------------
(* Names used by the program *)

\* base.py: MODEL_NAMES
MODEL_NAMES == {"protocol", "researcher", "sample", "subject", "summary",
                "term", "award", "human_subject", "animal_subject"}

\* the order in which add_data walks the entity types
RecTypes == <<"protocol", "term", "researcher", "subject", "sample", "award", "summary">>

\* the keys of update_recs
TypeNames == {"protocol", "term", "researcher", "subject", "sample", "award",
              "summary", "tag"}

\* Python's None where a record hash is expected (record hashes are >= 1)
NoneHash == 0

\* Python's None where a Ledger field (a collection hash) is expected
NoneField == <<0 - 1>>

\* size of a create batch, update_records
BatchSize == 100

\* the limit of the listing of the Ledger records, update_datasets
SyncLimit == 500

-----------------------------------------------------------------------------
(* Bounds of the model *)

\* largest local id of a record of the snapshot
MaxLid == 2

\* the dataset keys of the snapshot, in the order of newJson.items()
Keys == <<"k1", "k2">>

KeySet == {Keys[i] : i \in 1..Len(Keys)}

\* a dataset id left in the resume file by an earlier run over another snapshot
OldKey == "k0"

-----------------------------------------------------------------------------
(* The snapshot *)

\* A collection maps local ids to records [hash, human]; human is TRUE when
\* animalSubjectIsOfSpecies = 'homo sapiens'.
Rec(h, hum) == [hash |-> h, human |-> hum]

EmptyColl == [l \in {} |-> Rec(1, FALSE)]

\* a dataset document: one collection per entity type, the summary record
\* (its content, a number), the list of tags and the references between the
\* records: links.awards the hasAwardNumber of the summary, links.rels its
\* relationships [name, target, ids], links.terms the terms the linked
\* properties of each subject name, links.derived the subject each sample
\* was derived from (0: none). No record has a hasDoi, a
\* hasFolderAboutIt or a DOI as its id, so add_protocols and add_summary
\* attach no file and no reference.
NodeA ==
  [protocol   |-> (1 :> Rec(1, FALSE)),
   term       |-> (1 :> Rec(1, FALSE)),
   researcher |-> EmptyColl,
   subject    |-> (1 :> Rec(1, TRUE)) @@ (2 :> Rec(2, FALSE)),
   sample     |-> (1 :> Rec(1, FALSE)),
   award      |-> (1 :> Rec(1, FALSE)),
   summary    |-> 1,
   tag        |-> <<1>>,
   links      |-> [awards  |-> <<1>>,
                   rels    |-> <<[name |-> "isAbout", target |-> "term", ids |-> <<1>>]>>,
                   terms   |-> (1 :> <<1>>) @@ (2 :> <<1>>),
                   derived |-> (1 :> 1)]]

\* the document after a change upstream: a term added, a subject changed
NodeB ==
  [NodeA EXCEPT !.term = (1 :> Rec(1, FALSE)) @@ (2 :> Rec(2, FALSE)),
                !.subject = (1 :> Rec(1, TRUE)) @@ (2 :> Rec(3, FALSE)),
                !.tag = <<>>]

\* the local ids of a collection, ascending (the order of sub_node.items())
RECURSIVE SortedLids(_, _)
SortedLids(c, from) ==
  IF from > MaxLid + 1 THEN <<>>
  ELSE IF from \in DOMAIN c THEN <<from>> \o SortedLids(c, from + 1)
       ELSE SortedLids(c, from + 1)

\* the canonical (key-sorted) serialisation of a collection
RECURSIVE Serialise(_, _)
Serialise(c, lids) ==
  IF lids = <<>> THEN <<>>
  ELSE <<Head(lids), c[Head(lids)].hash, IF c[Head(lids)].human THEN 1 ELSE 0>>
       \o Serialise(c, Tail(lids))

\* get_recordset_hash of node[t]
get_recordset_hash(node, t) ==
  IF t = "tag" THEN node.tag
  ELSE IF t = "summary" THEN <<node.summary>>
  ELSE Serialise(node[t], SortedLids(node[t], 1))

-----------------------------------------------------------------------------
(* The platform side of one dataset, threaded through the calls of one step: *)
(*   models : the names of the models that exist in the dataset            *)
(*   recs   : the records, [model, rid, hash, lid]; hash is the stored      *)
(*            recordHash, lid the local id the record was created from      *)
(*   next   : the next record id the platform hands out                     *)
(*   cache  : record_cache, per model name a sequence (a dict in insertion  *)
(*            order) of entries [k, r]; a key is <<"lid", n>> (a json id)   *)
(*            or <<"rid", n>> (a platform id)                               *)
(*   writes : the write calls issued, [kind, model, items]                  *)
(*   raised : an exception is propagating                                   *)
(*   failed : a remote call failed                                          *)
(*   calls  : the remote calls of the link phase, the returns of the        *)
(*            resolver and the entries and ends of add_record_links, in     *)
(*            order, [kind, model, rec, items]                              *)
(*   ret    : the record id the resolver returned last, 0 for None          *)
(*   linked : the model the sample model's wasDerivedFromSubject property   *)
(*            targets, "" while the sample model has no such property       *)
(*   edges  : the linked-property values and the relationships the records  *)
(*            carry, a bag of [from, name, to]; the platform keeps every    *)
(*            one it is given                                               *)

\* the places where a remote call of a reconciliation can fail
FailPoints == {"none", "create_model", "fetch", "clear", "create", "delete"}

Range(q) == {q[i] : i \in 1..Len(q)}

EmptyCache == [m \in MODEL_NAMES |-> <<>>]

\* the platform drops the links and relationships of the records it deletes
Without(edges, rids) ==
  [e \in {x \in DOMAIN edges : x.from \notin rids /\ x.to \notin rids} |-> edges[e]]

\* a write call on model m is issued; items are the local ids of the records
\* a create call carries, the platform ids of the records a delete call names
IssueWith(st, kind, m, items) ==
  [st EXCEPT !.writes = @ \cup {[kind |-> kind, model |-> m, items |-> items]}]

Issue(st, kind, m) == IssueWith(st, kind, m, {})

Raise(st) == [st EXCEPT !.raised = TRUE]

Fail(st) == [st EXCEPT !.raised = TRUE, !.failed = TRUE]

RecsOf(st, m) == {r \in st.recs : r.model = m}

\* the records of a model in the order the platform lists them
RECURSIVE ListRecs(_)
ListRecs(rs) ==
  IF rs = {} THEN <<>>
  ELSE LET r == CHOOSE x \in rs : \A y \in rs : x.rid <= y.rid
       IN <<r>> \o ListRecs(rs \ {r})

\* dict.update with one (key, value) pair: a known key keeps its place
CachePut(c, key, rec) ==
  IF \E i \in 1..Len(c) : c[i].k = key
  THEN [i \in 1..Len(c) |-> IF c[i].k = key THEN [k |-> key, r |-> rec] ELSE c[i]]
  ELSE Append(c, [k |-> key, r |-> rec])

RECURSIVE CachePutAll(_, _, _)
CachePutAll(c, keys, recs) ==
  IF keys = <<>> \/ recs = <<>> THEN c
  ELSE CachePutAll(CachePut(c, Head(keys), Head(recs)), Tail(keys), Tail(recs))

\* a get-or-create that hands out the model that exists
get_create_model_existing(st, name, hasSchema, hasLinks, fail) ==
  IF st.raised \/ name \in st.models THEN st
  ELSE IF ~hasSchema THEN Raise(st)
  ELSE IF fail = "create_model" THEN Fail(Issue(st, "model_create", name))
  ELSE [Issue(IF hasLinks THEN Issue(st, "model_update", name) ELSE st,
              "model_create", name)
          EXCEPT !.models = @ \cup {name}]

\* bf_io.get_create_model: the model exists and a schema is given -> the
\* Exception raised inside the try is no HTTPError and propagates
\* (lines 226-234); a model just created has none of the linked properties
\* asked for, which are then added (lines 237-240)
get_create_model(st, name, hasSchema, hasLinks, fail) ==
  IF st.raised THEN st
  ELSE IF name \in st.models
       THEN IF hasSchema THEN Raise(st) ELSE st
       ELSE IF ~hasSchema THEN Raise(st)
            ELSE IF fail = "create_model" THEN Fail(Issue(st, "model_create", name))
                 ELSE LET s1 == [Issue(st, "model_create", name)
                                   EXCEPT !.models = @ \cup {name}]
                      IN IF hasLinks THEN Issue(s1, "model_update", name) ELSE s1

\* bf_io.clear_model: delete the records, then the model
clear_model(st, name, fail) ==
  IF st.raised THEN st
  ELSE IF name \notin st.models THEN st
  ELSE IF fail = "clear"
       THEN Fail(IssueWith(st, "record_delete", name, {r.rid : r \in RecsOf(st, name)}))
  ELSE LET s1 == Issue(IssueWith(st, "record_delete", name,
                                 {r.rid : r \in RecsOf(st, name)}),
                       "model_delete", name)
       IN [s1 EXCEPT !.recs = {r \in @ : r.model # name},
                     !.models = @ \ {name},
                     !.linked = IF name = "sample" THEN "" ELSE @,
                     !.edges = Without(@, {r.rid : r \in RecsOf(st, name)})]

\* get_all_records_from_remote: empties the cache of the model, then caches
\* every record under its platform id and lists the stored hashes
get_all_records_from_remote(st, name, fail) ==
  IF st.raised THEN st
  ELSE IF fail = "fetch" THEN Fail(st)
  ELSE LET l == ListRecs(RecsOf(st, name))
       IN [st EXCEPT !.cache[name] =
             [i \in 1..Len(l) |-> [k |-> <<"rid", l[i].rid>>, r |-> l[i]]]]

\* base.validate_orcid_url applied to a record hash: a hash is no ORCID URL
validate_orcid_url(h) == NoneHash

\* the recordHash the transform function of a model stores for a local record
\* (add_terms reads 'hash' from the collection, not from the term)
StoredHash(name, rec) ==
  IF name = "term" THEN NoneHash
  ELSE IF name = "researcher" THEN validate_orcid_url(rec.hash)
  ELSE rec.hash

\* update_records, lines 451-468: the local ids staged for creation
RECURSIVE Staged(_, _, _, _, _)
Staged(coll, lids, hashes, sub_type, update_all) ==
  IF lids = <<>> THEN <<>>
  ELSE LET l == Head(lids)
           rest == Staged(coll, Tail(lids), hashes, sub_type, update_all)
       IN IF coll[l].hash \notin hashes \/ update_all
          THEN IF sub_type = "human" /\ ~coll[l].human THEN rest
               ELSE IF sub_type = "not_human" /\ coll[l].human THEN rest
               ELSE <<l>> \o rest
          ELSE rest

\* update_records, lines 476-485: the slices <<first, last>> of the staged
\* list handed to create_records, in call order
BatchSlices(len) ==
  LET nr_batches == len \div BatchSize
  IN IF nr_batches > 1
     THEN [i \in 1..(nr_batches + 1) |->
             IF i <= nr_batches THEN <<(i - 1) * BatchSize + 1, i * BatchSize>>
             ELSE <<nr_batches * BatchSize + 1, len>>]
     ELSE <<<<1, len>>>>

\* get_record_by_hash: the first cached record with that stored hash
get_record_by_hash(c, h) ==
  LET hits == {i \in 1..Len(c) : c[i].r.hash = h}
  IN IF hits = {} THEN {} ELSE {c[CHOOSE i \in hits : \A j \in hits : i <= j].r}

\* update_records, lines 472-489: create the staged records
CreateStaged(st, coll, name, staged, fail) ==
  IF st.raised \/ staged = <<>> THEN st
  ELSE LET s1 == IssueWith(st, "record_create", name, Range(staged))
           made == [i \in 1..Len(staged) |->
                      [model |-> name, rid |-> st.next + i - 1,
                       hash |-> StoredHash(name, coll[staged[i]]), lid |-> staged[i]]]
           keys == [i \in 1..Len(staged) |-> <<"lid", staged[i]>>]
       IN IF fail = "create"
          THEN IF Len(BatchSlices(Len(staged))) > 1 THEN Fail(s1)
               ELSE [s1 EXCEPT !.failed = TRUE]
          ELSE [s1 EXCEPT !.recs = @ \cup {made[i] : i \in 1..Len(made)},
                          !.next = @ + Len(made),
                          !.cache[name] = CachePutAll(@, keys, made)]

\* update_records, lines 494-503: delete the remote records whose hash is
\* not in the snapshot
RemoveStale(st, coll, name, all_record_hashes, fail) ==
  IF st.raised THEN st
  ELSE LET json == {coll[l].hash : l \in DOMAIN coll}
           remove_recs == UNION {get_record_by_hash(st.cache[name], all_record_hashes[i]) :
                                   i \in {j \in 1..Len(all_record_hashes) :
                                            all_record_hashes[j] \notin json}}
           s1 == IssueWith(st, "record_delete", name, {r.rid : r \in remove_recs})
       IN IF fail = "delete" THEN Fail(s1)
          ELSE [s1 EXCEPT !.recs = @ \ remove_recs,
                          !.edges = Without(@, {r.rid : r \in remove_recs})]

\* update_records
update_records(st, coll, name, sub_type, update_all, fail) ==
  LET links == name \in {"human_subject", "animal_subject"}
      s1 == get_create_model(st, name, TRUE, links, fail)
      s2 == IF update_all
            THEN get_create_model(clear_model(s1, name, fail), name, TRUE, links, fail)
            ELSE get_all_records_from_remote(s1, name, fail)
      fetched == IF update_all \/ s2.raised THEN <<>>
                 ELSE [i \in 1..Len(s2.cache[name]) |-> s2.cache[name][i].r.hash]
      staged == Staged(coll, SortedLids(coll, 1), {fetched[i] : i \in 1..Len(fetched)},
                       sub_type, update_all)
      s3 == CreateStaged(s2, coll, name, staged, fail)
  IN RemoveStale(s3, coll, name, fetched, fail)

-----------------------------------------------------------------------------
(* State *)

VARIABLES
  cfg,              \* [env, option, force_update, force_model, resume]
  newJson,          \* the snapshot: dataset key -> document
  resumeFile,       \* the Progress Ledger as stored in cfg.ttl_resume_file
  prevFile,         \* history: the Progress Ledger when the run started
  ledger,           \* the Ledger records on the platform: [ds_id, pos, fields]
  ledger0,          \* history: the Ledger records when the run started
  plat0,            \* history: the platform datasets when the run started
  plat,             \* dataset key -> [exists, access, locked, models, recs, tags]
  nextRid,          \* the next record id the platform hands out
  faults,           \* the remote-call failures injected so far
  pc,               \* the position of update_datasets
  work,             \* the keys of newJson in iteration order
  idx,              \* the index in work of the current dataset
  dsId,             \* the local variable dsId
  updated_ds_list,
  failedDatasets,
  sync_dict,        \* the Ledger records found by the listing, by ds_id
  sync_rec,         \* the Ledger record of the current dataset, in memory
  record_cache,
  update_recs,
  ti,               \* the index in RecTypes of the entity type add_data is at
  bfCache,          \* the function-level cache of get_bf_model: [ds, names]
  writes,           \* history: the remote write calls issued, [key, kind, model]
  reconciled,       \* history: key -> the entity types whose add_* was called
  failedTypes,      \* history: key -> the entity types with a failed remote call
  iterated,         \* history: the keys whose iteration ended, in order
  out,              \* ttl_update_cli.update: the value update_datasets returned
  calls,            \* history: the calls of the latest link phase, in order
  record_list,      \* update_records: the number of records staged for creation
  create_calls,     \* update_records: the slices given to create_records so far
  sub_node,         \* a collection as loaded: a dict in insertion order
  hashed_node,      \* history: the collection as it was when its hash was stored
  stored,           \* the Ledger field of the collection's entity type
  looks_changed,    \* the update_recs entry of the type: "unset", "yes" or "no"
  clear_pc,         \* the position of bf_io.clear_model
  model_exists,     \* clear_model: the dataset has the model
  model_count,      \* clear_model: model.count, read when the model is fetched
  model_recs,       \* clear_model: the number of records the model holds
  nr_batches,       \* clear_model: the local variable nr_batches
  batch_i,          \* clear_model: the loop variable i
  deleted_with,     \* history: the records the model held when it was deleted
  del_pc,           \* the position of sync_json.deleteData
  log_bound,        \* sync_json: the module has a global named log
  node_expired,     \* deleteData: node['expired']
  modelNode,        \* deleteData: the records of one model node, in dict order
  del_at,           \* deleteData: the place in modelNode the loop is at
  oldRecs,          \* deleteData: the local list oldRecs
  recordCache,      \* deleteData: recordCache[modelName], identifier -> record id
  cache0,           \* history: recordCache[modelName] when deleteData was called
  remote            \* deleteData: the ids of the records the model holds

\* what no step of a run changes
fixed == <<cfg, prevFile, ledger0, plat0>>

vars == <<cfg, newJson, resumeFile, prevFile, ledger, ledger0, plat0, plat, nextRid, faults,
          pc, work, idx, dsId, updated_ds_list, failedDatasets, sync_dict, sync_rec,
          record_cache, update_recs, ti, bfCache, writes, reconciled, failedTypes,
          iterated, out, calls, record_list, create_calls, sub_node, hashed_node,
          stored, looks_changed, clear_pc, model_exists, model_count, model_recs,
          nr_batches, batch_i, deleted_with, del_pc, log_bound, node_expired,
          modelNode, del_at, oldRecs, recordCache, cache0, remote>>

\* the state of the creation phase of one update_records call
batchVars == <<record_list, create_calls>>

\* the state of the comparison of one collection with its Ledger field
hashVars == <<sub_node, hashed_node, stored, looks_changed>>

\* the state of one clear_model call
clearVars == <<clear_pc, model_exists, model_count, model_recs, nr_batches, batch_i,
               deleted_with>>

\* the state of one deleteData call
deleteVars == <<del_pc, log_bound, node_expired, modelNode, del_at, oldRecs, recordCache,
                cache0, remote>>

\* the state of the calls that are checked on their own
callVars == <<clearVars, deleteVars>>

\* the most remote-call failures injected in one run
MaxFaults == 1

\* the id the platform gives a dataset created under the name k
NewId(k) == IF k = "k1" THEN "n1" ELSE IF k = "k2" THEN "n2" ELSE "n0"

NoFields == [t \in TypeNames |-> NoneField]

\* the Ledger fields after a complete synchronisation of a document
FieldsOf(node) == [t \in TypeNames |-> get_recordset_hash(node, t)]

\* a dataset nobody synchronised
FreshDs(exists, access, locked) ==
  [exists |-> exists, access |-> access, locked |-> locked,
   models |-> {}, recs |-> {}, tags |-> <<>>, linked |-> "", edges |-> EmptyBag]

\* the threaded state of a step on dataset p, see above; bf is the cache of
\* get_bf_model and dsid the id of the dataset object
StOf(p, cache, bf, dsid, next) ==
  [models |-> p.models, recs |-> p.recs, next |-> next, cache |-> cache,
   bf |-> bf, dsid |-> dsid, writes |-> {}, raised |-> FALSE, failed |-> FALSE,
   calls |-> <<>>, ret |-> 0, linked |-> p.linked, edges |-> p.edges]

\* base.get_bf_model: the model handle is looked up on the platform unless the
\* cache holds it for this dataset; a missing model raises on the first call
\* and on a switch of dataset, and yields None otherwise. A caller that builds
\* a LinkedModelProperty on None raises as well.
get_bf_model(st, name) ==
  IF st.raised THEN st
  ELSE IF st.bf.ds = "" \/ st.bf.ds # st.dsid
       THEN IF name \in st.models
            THEN [st EXCEPT !.bf = [ds |-> st.dsid, names |-> {name}]]
            ELSE Raise(st)
       ELSE IF name \in st.bf.names THEN st
            ELSE IF name \in st.models
                 THEN [st EXCEPT !.bf.names = @ \cup {name}]
                 ELSE Raise(st)

\* add_subjects: the term model handle, then the human and the animal records
add_subjects(st, coll, update_all, failH, failA) ==
  LET s1 == get_bf_model(st, "term")
      s2 == update_records(s1, coll, "human_subject", "human", update_all, failH)
  IN update_records(s2, coll, "animal_subject", "not_human", update_all, failA)

\* add_summary: the award model handle, the summary model, one record; a
\* failure of create_records propagates
add_summary(st, content, fail) ==
  LET s2 == get_create_model(get_bf_model(st, "award"), "summary", TRUE, TRUE, fail)
      s3 == IF s2.raised THEN s2 ELSE IssueWith(s2, "record_create", "summary", {0})
      made == [model |-> "summary", rid |-> st.next, hash |-> NoneHash, lid |-> 0]
  IN IF s3.raised THEN s3
     ELSE IF fail = "create" THEN Fail(s3)
     ELSE [s3 EXCEPT !.recs = @ \cup {made}, !.next = @ + 1,
                     !.cache["summary"] = CachePut(@, <<"lid", 0>>, made)]

\* add_data, lines 548-603: the reconciliation of entity type t
AddType(st, t, node, force_model, f1, f2) ==
  IF t = "protocol" THEN update_records(st, node.protocol, "protocol", "", force_model = t, f1)
  ELSE IF t = "term" THEN update_records(st, node.term, "term", "", force_model = t, f1)
  ELSE IF t = "researcher"
       THEN update_records(st, node.researcher, "researcher", "", force_model = t, f1)
  ELSE IF t = "subject"
       THEN add_subjects(clear_model(st, "animal_subject", f1), node.subject,
                         force_model = t, f1, f2)
  ELSE IF t = "sample" THEN update_records(st, node.sample, "sample", "", force_model = t, f1)
  ELSE IF t = "award" THEN update_records(st, node.award, "award", "", force_model = t, f1)
  ELSE add_summary(st, node.summary, f1)

\* add_data on every entity type with no failure
RECURSIVE AddAll(_, _, _)
AddAll(st, node, i) ==
  IF i > Len(RecTypes) THEN st
  ELSE AddAll(AddType(st, RecTypes[i], node, "", "none", "none"), node, i + 1)

-----------------------------------------------------------------------------
(* The identity resolver and the link builder. The value a record is found  *)
(* by is its lid: the award_id of an award, the id of a sample, the label   *)
(* of a term. The label of the snapshot's term n is n; the label of the     *)
(* placeholder made for the json id n is PlaceholderBase + n. The position  *)
(* of a record in the listing of its model is its platform id.              *)

\* get_record_id_from_node, line 277: the most records the resolver lists
ResolveLimit == 500

\* the label of the placeholder of json id n is PlaceholderBase + n
PlaceholderBase == 100

\* a remote call of the link phase
Call(st, kind, m, rec, items) ==
  [st EXCEPT !.calls = Append(@, [kind |-> kind, model |-> m, rec |-> rec,
                                  items |-> items])]

Ret(st, rid) == [st EXCEPT !.ret = rid]

\* the remote reads of the resolver
ResolverReads == {"get_all", "search", "get"}

\* a return of get_record_id_from_node: the lookup of (type, json_id) gave
\* the record id rid, 0 for None
Return(st, type, json_id, rid) ==
  Ret(Call(st, "resolved", type, json_id, IF rid = 0 THEN {} ELSE {rid}), rid)

\* the place of key in the dict c, 0 when the dict has no such key
CacheIndex(c, key) ==
  IF \E i \in 1..Len(c) : c[i].k = key
  THEN CHOOSE i \in 1..Len(c) : c[i].k = key
  ELSE 0

\* map_target_to_json_model
map_target_to_json_model(target_name) ==
  IF target_name \in {"subject", "animal_subject", "human_subject"} THEN "subject"
  ELSE target_name

\* the entity types find_target_record_locally and find_target_record_remotely
\* know; for every other type both return None
Findable == {"award", "sample", "term", "researcher", "summary"}

\* the value a record of the type is matched on: the term of a json id with
\* no node in the snapshot is matched on the json id as label
MatchValue(type, json_id, has_node) ==
  IF type = "term" /\ ~has_node THEN PlaceholderBase + json_id ELSE json_id

\* json_node['awardId'] and json_node.get(...) on item_node = [] raise
NodeRaises(type, has_node) == type \in {"award", "researcher"} /\ ~has_node

\* find_target_record_locally: the place of the first cached record that
\* matches, 0 for None
find_target_record_locally(c, type, json_id, has_node) ==
  LET hits == {i \in 1..Len(c) :
                 type = "summary" \/ c[i].r.lid = MatchValue(type, json_id, has_node)}
  IN IF type \notin Findable \/ hits = {} THEN 0
     ELSE CHOOSE i \in hits : \A j \in hits : i <= j

\* bf_io.search_for_records: more than one match raises
search_for_records(st, type, value) ==
  LET found == {r \in RecsOf(st, type) : type = "summary" \/ r.lid = value}
      s1 == Call(st, "search", type, value, {r.rid : r \in found})
  IN IF Cardinality(found) > 1 THEN Raise(s1)
     ELSE IF found = {} THEN Ret(s1, 0)
     ELSE Ret(s1, (CHOOSE r \in found : TRUE).rid)

\* find_target_record_remotely
find_target_record_remotely(st, type, json_id, has_node) ==
  IF type \notin Findable THEN Ret(st, 0)
  ELSE search_for_records(st, type, MatchValue(type, json_id, has_node))

\* lines 276-278: the first ResolveLimit records of the model become its cache
ListFirst(st, type) ==
  LET l == ListRecs({r \in RecsOf(st, type) : r.rid <= ResolveLimit})
  IN [Call(st, "get_all", type, 0, {l[i].rid : i \in 1..Len(l)})
        EXCEPT !.cache[type] = [i \in 1..Len(l) |-> [k |-> <<"rid", l[i].rid>>, r |-> l[i]]]]

\* a resolver that forgets what the search found
CacheFound_none(c, key, rec) == c

\* line 290: the record found by the search is cached under the json id
CacheFound(c, key, rec) == CachePut(c, key, rec)

\* get_record_id_from_node, lines 286-293: what the search gave; ret is the
\* id of the record, 0 for None
Searched(s2, type, json_id) ==
  IF s2.raised THEN s2
  ELSE IF s2.ret = 0 THEN Return(s2, type, json_id, 0)
  ELSE LET rec == CHOOSE r \in RecsOf(s2, type) : r.rid = s2.ret
       IN Return([Call(s2, "get", type, s2.ret, {})
                    EXCEPT !.cache[type] = CacheFound(@, <<"lid", json_id>>, rec)],
                 type, json_id, s2.ret)

\* get_record_id_from_node, lines 276-287: s1 is the state once the cache of
\* the model is filled
Looked(s1, type, json_id, has_node) ==
  LET loc == find_target_record_locally(s1.cache[type], type, json_id, has_node)
  IN IF NodeRaises(type, has_node) THEN Raise(s1)
     ELSE IF loc # 0 THEN Return(s1, type, json_id, s1.cache[type][loc].r.rid)
     ELSE Searched(find_target_record_remotely(s1, type, json_id, has_node),
                   type, json_id)

\* get_record_id_from_node: ret is the id of the record, 0 for None
get_record_id_from_node(st, type, json_id, has_node) ==
  IF st.raised THEN st
  ELSE LET hit == CacheIndex(st.cache[type], <<"lid", json_id>>)
       IN IF hit # 0 THEN Return(st, type, json_id, st.cache[type][hit].r.rid)
          ELSE Looked(IF Len(st.cache[type]) = 0 THEN ListFirst(st, type) ELSE st,
                      type, json_id, has_node)

\* base.get_bf_model: a model handle, None, or an exception
BfOutcome(st, name) ==
  IF st.bf.ds = "" \/ st.bf.ds # st.dsid
  THEN IF name \in st.models THEN "model" ELSE "raise"
  ELSE IF name \in st.bf.names \/ name \in st.models THEN "model" ELSE "none"

\* a builder that forgets the placeholder it made
CachePlaceholder_none(c, label, rec) == c

\* add_random_terms, line 668: record_cache['term'][label] = record
CachePlaceholder(c, label, rec) == CachePut(c, <<"lid", label>>, rec)

\* add_random_terms, lines 667-669: the record the term model creates; s1 is the
\* state that holds the handle of the model. The call is logged with the id
\* of the record made and the label it was made for
CreateTerm(s1, label) ==
  LET made == [model |-> "term", rid |-> s1.next, hash |-> NoneHash,
               lid |-> PlaceholderBase + label]
  IN IF s1.raised THEN s1
     ELSE Ret([Call(IssueWith(s1, "placeholder_create", "term", {label}),
                    "create_record", "term", made.rid, {label})
                 EXCEPT !.recs = @ \cup {made}, !.next = @ + 1,
                        !.cache["term"] = CachePlaceholder(@, label, made)],
              made.rid)

\* add_random_terms: a term record with the json id as its label, cached
\* under the json id
add_random_terms(st, label) == CreateTerm(get_bf_model(st, "term"), label)

\* the json id has a node in the collection of the snapshot
HasNode(node, type, json_id) ==
  LET jm == map_target_to_json_model(type)
  IN IF jm \in {"protocol", "term", "researcher", "subject", "sample", "award"}
     THEN json_id \in DOMAIN node[jm]
     ELSE FALSE

\* a builder that makes a placeholder for a target of any type
PlaceholderFor_any(targetType) == TRUE

\* add_record_links, line 731: the entity type a placeholder is made for
PlaceholderFor(targetType) == targetType = "term"

\* add_record_links, line 735: log.warning for a target that is not found
Unresolved(st) == st

\* add_record_links, lines 730-735: s1 is the state after the lookup
OrPlaceholder(s1, target, json_id) ==
  IF s1.raised \/ s1.ret # 0 THEN s1
  ELSE IF PlaceholderFor(target) THEN add_random_terms(s1, json_id)
  ELSE Unresolved(s1)

\* the payload started anew for every target
Linked_last(s2, payload, name) ==
  [st |-> s2,
   payload |-> IF ~s2.raised /\ s2.ret # 0
               THEN <<[name |-> name, to |-> s2.ret]>>
               ELSE payload]

\* add_record_links, lines 737-742: the target that was found joins the payload
Linked(s2, payload, name) ==
  [st |-> s2,
   payload |-> IF ~s2.raised /\ s2.ret # 0
               THEN Append(payload, [name |-> name, to |-> s2.ret])
               ELSE payload]

\* add_record_links, lines 719-742: the json ids of one linked property; r is
\* [st, payload], the payload the targets found so far
RECURSIVE LinkIds(_, _, _, _)
LinkIds(r, prop, ids, node) ==
  IF r.st.raised \/ ids = <<>> THEN r
  ELSE LinkIds(Linked(OrPlaceholder(get_record_id_from_node(
                                      r.st, prop.target, Head(ids),
                                      HasNode(node, prop.target, Head(ids))),
                                    prop.target, Head(ids)),
                      r.payload, prop.name),
               prop, Tail(ids), node)

\* add_record_links, lines 696-742: a property with the value None is passed
\* over; the others get the handle of their target model first
RECURSIVE LinkProps(_, _, _)
LinkProps(r, links, node) ==
  IF r.st.raised \/ links = <<>> THEN r
  ELSE LET prop == Head(links)
       IN IF prop.ids = <<>> THEN LinkProps(r, Tail(links), node)
          ELSE LinkProps(LinkIds([st |-> get_bf_model(r.st, prop.target),
                                  payload |-> r.payload],
                                 prop, prop.ids, node),
                         Tail(links), node)

\* bf_io.create_links: every entry of the payload becomes a link of the record
RECURSIVE AddEdges(_, _, _)
AddEdges(edges, from, payload) ==
  IF payload = <<>> THEN edges
  ELSE AddEdges(edges (+) SetToBag({[from |-> from, name |-> Head(payload).name,
                                     to |-> Head(payload).to]}),
                from, Tail(payload))

\* add_record_links, lines 744-746: one create_links call with the whole
\* payload, none for an empty payload
CreateLinks(r, type, record_id) ==
  LET to == {r.payload[i].to : i \in 1..Len(r.payload)}
  IN IF r.st.raised \/ r.payload = <<>> THEN r.st
     ELSE [Call(IssueWith(r.st, "link", type, to), "create_links", type, record_id, to)
             EXCEPT !.edges = AddEdges(@, record_id, r.payload)]

\* add_record_links, line 694: the call is entered
LinksBegin(st, type, record_id) ==
  IF st.raised THEN st ELSE Call(st, "links_begin", type, record_id, {})

\* add_record_links, line 744: every property was gone through
LinksEnd(r, type, record_id) ==
  IF r.st.raised THEN r
  ELSE [r EXCEPT !.st = Call(@, "links_end", type, record_id, {})]

\* add_record_links
add_record_links(st, type, record_id, links, node) ==
  CreateLinks(LinksEnd(LinkProps([st |-> LinksBegin(st, type, record_id),
                                  payload |-> <<>>],
                                 links, node),
                       type, record_id),
              type, record_id)

\* add_record_relationships, lines 781-790: s1 is the state after the lookup;
\* the record found is fetched, a term not found gets a placeholder
OrTerm(s1, target, json_id) ==
  IF s1.raised THEN s1
  ELSE IF s1.ret # 0 THEN Call(s1, "fetch", target, s1.ret, {})
  ELSE IF target = "term" THEN add_random_terms(s1, json_id)
  ELSE s1

\* add_record_relationships, lines 784 and 788: the target that was found
\* joins the targets
Related(s2, targets) ==
  [st |-> s2,
   targets |-> IF ~s2.raised /\ s2.ret # 0 THEN targets \cup {s2.ret} ELSE targets]

\* add_record_relationships, lines 771-790: a json id with no node in the
\* snapshot is passed over; r is [st, targets]
RECURSIVE RelIds(_, _, _, _)
RelIds(r, rel, ids, node) ==
  IF r.st.raised \/ ids = <<>> THEN r
  ELSE IF ~HasNode(node, rel.target, Head(ids)) THEN RelIds(r, rel, Tail(ids), node)
  ELSE RelIds(Related(OrTerm(get_record_id_from_node(r.st, rel.target, Head(ids), TRUE),
                             rel.target, Head(ids)),
                      r.targets),
              rel, Tail(ids), node)

\* add_record_relationships, lines 793-794: one relate_to call when a target
\* was found
RelateTo(r, type, record_id, name) ==
  IF r.st.raised \/ r.targets = {} THEN r.st
  ELSE [Call(IssueWith(r.st, "relate", type, r.targets),
             "relate_to", type, record_id, r.targets)
          EXCEPT !.edges = @ (+) SetToBag({[from |-> record_id, name |-> name, to |-> t] :
                                             t \in r.targets})]

RECURSIVE add_record_relationships(_, _, _, _, _)

\* add_record_relationships, lines 753-794: one relationship; s1 is the state
\* after the handle of the target model was asked for, none says there is no
\* handle (the first lookup then raises)
Relationship(s1, none, type, record_id, rels, node) ==
  LET rel == Head(rels)
  IN IF s1.raised THEN s1
     ELSE IF rel.ids = <<>>
          THEN add_record_relationships(s1, type, record_id, Tail(rels), node)
     ELSE IF none /\ \E i \in 1..Len(rel.ids) : HasNode(node, rel.target, rel.ids[i])
          THEN Raise(s1)
     ELSE add_record_relationships(
            RelateTo(RelIds([st |-> s1, targets |-> {}], rel, rel.ids, node),
                     type, record_id, rel.name),
            type, record_id, Tail(rels), node)

\* add_record_relationships: per relationship the handle of the target model,
\* then the lookups and the relate_to call
add_record_relationships(st, type, record_id, rels, node) ==
  IF st.raised \/ rels = <<>> THEN st
  ELSE Relationship(IF BfOutcome(st, Head(rels).target) = "none" THEN st
                    ELSE get_bf_model(st, Head(rels).target),
                    BfOutcome(st, Head(rels).target) = "none",
                    type, record_id, rels, node)

\* add_summary_links, line 1412, and add_sample_links, line 1269: the
\* record is fetched once its links are made
FetchAfter(s3, type, rid) ==
  IF s3.raised THEN s3 ELSE Call(s3, "fetch", type, rid, {})

\* add_summary_links, lines 1405-1415: s2 is the state after the lookup of
\* the summary record
SummaryLinks(s2, node) ==
  IF s2.raised \/ s2.ret = 0 THEN s2
  ELSE add_record_relationships(
         FetchAfter(add_record_links(s2, "summary", s2.ret,
                                     <<[name |-> "hasAwardNumber", target |-> "award",
                                        ids |-> node.links.awards]>>, node),
                    "summary", s2.ret),
         "summary", s2.ret, node.links.rels, node)

\* add_summary_links
add_summary_links(st, node) ==
  SummaryLinks(
    get_record_id_from_node(
      get_create_model(
        get_bf_model(IF BfOutcome(st, "summary") = "none" THEN st
                     ELSE get_bf_model(st, "summary"),
                     "award"),
        "summary", FALSE, TRUE, "none"),
      "summary", 0, TRUE),
    node)

\* transform_animal, lines 1146-1151: the names of the linked properties
SubjectProps ==
  <<"animalSubjectIsOfSpecies", "hasBiologicalSex", "hasAgeCategory",
    "specimenHasIdentifier">>

\* transform_animal: the linked properties of a subject, all of them terms
SubjectLinks(node, subj_id) ==
  [i \in 1..Len(node.links.terms[subj_id]) |->
     [name |-> SubjectProps[i], target |-> "term",
      ids |-> <<node.links.terms[subj_id][i]>>]]

\* add_subject_links, lines 1157-1165: s1 is the state after the lookup of
\* the subject record
OneSubject(s1, node, subj_id) ==
  IF s1.raised \/ s1.ret = 0 THEN s1
  ELSE add_record_links(s1, "animal_subject", s1.ret, SubjectLinks(node, subj_id), node)

\* add_subject_links, lines 1154-1165
RECURSIVE SubjectLoop(_, _, _)
SubjectLoop(st, node, lids) ==
  IF st.raised \/ lids = <<>> THEN st
  ELSE SubjectLoop(OneSubject(get_record_id_from_node(st, "animal_subject",
                                                      Head(lids), TRUE),
                              node, Head(lids)),
                   node, Tail(lids))

\* add_subject_links: the species is read from the collection, so the model
\* is animal_subject; without a handle each lookup raises
add_subject_links(st, node) ==
  LET lids == SortedLids(node.subject, 1)
  IN IF st.raised \/ BfOutcome(st, "animal_subject") = "raise" THEN st
     ELSE IF BfOutcome(st, "animal_subject") = "none"
          THEN IF lids = <<>> THEN st ELSE Raise(st)
          ELSE SubjectLoop(get_bf_model(st, "animal_subject"), node, lids)

\* add_sample_links.updateModel, lines 1218-1230: the model of the subjects
SubjectModel(st) ==
  IF "human_subject" \in st.models THEN "human_subject"
  ELSE IF "animal_subject" \in st.models THEN "animal_subject"
  ELSE "subject"

\* add_sample_links.updateModel, lines 1232-1235: the sample model gets its
\* linked property when it has none; s2 is the state that holds the model
LinkSample(s2, subModel) ==
  IF s2.raised \/ s2.linked # "" THEN s2
  ELSE [Issue(s2, "model_update", "sample") EXCEPT !.linked = subModel]

\* add_sample_links.updateModel: the model of the subjects, then the linked
\* property of the sample model
updateModel(st) ==
  LinkSample(get_create_model(IF SubjectModel(st) = "subject"
                              THEN get_create_model(clear_model(st, "subject", "none"),
                                                    "subject", TRUE, FALSE, "none")
                              ELSE st,
                              "sample", FALSE, TRUE, "none"),
             SubjectModel(st))

\* transform_sample: the one linked property of a sample
SampleLinks(st, node, sampleId) ==
  <<[name |-> "wasDerivedFromSubject", target |-> st.linked,
     ids |-> IF node.links.derived[sampleId] = 0 THEN <<>>
             ELSE <<node.links.derived[sampleId]>>]>>

\* add_sample_links, lines 1262-1284: s1 is the state after the lookup of the
\* sample record
OneSample(s1, node, sampleId) ==
  IF s1.raised \/ s1.ret = 0 THEN s1
  ELSE FetchAfter(add_record_links(s1, "sample", s1.ret,
                                   SampleLinks(s1, node, sampleId), node),
                  "sample", s1.ret)

\* add_sample_links, lines 1259-1284
RECURSIVE SampleLoop(_, _, _)
SampleLoop(st, node, lids) ==
  IF st.raised \/ lids = <<>> THEN st
  ELSE SampleLoop(OneSample(get_record_id_from_node(st, "sample", Head(lids), TRUE),
                            node, Head(lids)),
                  node, Tail(lids))

\* add_sample_links
add_sample_links(st, node) ==
  IF st.raised \/ BfOutcome(st, "sample") = "none" THEN st
  ELSE SampleLoop(updateModel(get_bf_model(st, "sample")), node,
                  SortedLids(node.sample, 1))

\* add_links, lines 627-629
LinkSummary(st, node, recs) ==
  IF recs["summary"] \/ recs["term"] \/ recs["award"] \/ recs["researcher"]
  THEN add_summary_links(st, node) ELSE st

\* add_links, lines 631-633
LinkSubjects(s1, node, recs) ==
  IF s1.raised THEN s1
  ELSE IF recs["subject"] \/ recs["term"] THEN add_subject_links(s1, node)
  ELSE s1

\* add_links, lines 635-637
LinkSamples(s2, node, recs) ==
  IF s2.raised THEN s2
  ELSE IF recs["sample"] \/ recs["term"] \/ recs["subject"]
       THEN add_sample_links(s2, node) ELSE s2

\* add_links, lines 627-637
add_links(st, node, recs) ==
  LinkSamples(LinkSubjects(LinkSummary(st, node, recs), node, recs), node, recs)

\* add_tags: the tags the dataset gets
TagsOf(node) == IF node.tag = <<>> THEN <<0>> ELSE node.tag

\* the platform's copy of a dataset whose run ended in state st
StoredDs(st, access, locked, node) ==
  [exists |-> "byId", access |-> access, locked |-> locked,
   models |-> st.models, recs |-> st.recs, tags |-> TagsOf(node),
   linked |-> st.linked, edges |-> st.edges]

\* a dataset an earlier run synchronised from document node
SyncedDs(k, access, locked, node) ==
  StoredDs(add_links(AddAll(StOf(FreshDs("byId", access, locked), EmptyCache,
                                 [ds |-> "", names |-> {}], k, 1), node, 1),
                     node, [t \in TypeNames |-> TRUE]),
           access, locked, node)

-----------------------------------------------------------------------------
(* Initial states *)

PriorNode(prior) ==
  IF prior = "A" THEN NodeA
  ELSE IF prior = "S" THEN [NodeB EXCEPT !.summary = 2]
  ELSE NodeB

\* what an earlier run left of a dataset: the dataset on the platform, whether
\* the curation team manages it, whether it is locked for publication, the
\* document it was last synchronised from and where its Ledger record lies
\* in the listing of the Ledger records
Profiles ==
  {p \in [exists : {"absent", "byId"}, access : BOOLEAN, locked : BOOLEAN,
          prior : {"never", "A", "B", "S"}, where : {"absent", "page", "beyond"}] :
     /\ p.exists = "absent" => p.prior = "never" /\ ~p.locked /\ p.where = "absent"
                               /\ p.access
     /\ p.locked => p.access
     /\ p.prior # "never" => p.where # "absent"
     /\ p.prior = "never" => p.where # "beyond"
     /\ p.prior = "S" => p.access /\ ~p.locked /\ p.where = "page"}

\* the profiles of the datasets after the first
LaterProfiles ==
  {p \in Profiles : p.exists = "byId" /\ p.access /\ ~p.locked
                    /\ p.prior \in {"never", "B"} /\ p.where # "beyond"
                    /\ (p.prior = "never" => p.where = "absent")}

\* the profile of a dataset the run does not look at
FirstProfile ==
  [exists |-> "byId", access |-> TRUE, locked |-> FALSE, prior |-> "never",
   where |-> "absent"]

KeyIndex(k) == CHOOSE i \in 1..Len(Keys) : Keys[i] = k

PlatOf(k, p) ==
  IF p.prior = "never" THEN FreshDs(p.exists, p.access, p.locked)
  ELSE SyncedDs(k, p.access, p.locked, PriorNode(p.prior))

LedgerOf(k, p) ==
  IF p.where = "absent" THEN {}
  ELSE {[ds_id |-> k,
         pos |-> IF p.where = "page" THEN KeyIndex(k) ELSE SyncLimit + KeyIndex(k),
         fields |-> IF p.prior = "never" THEN NoFields ELSE FieldsOf(PriorNode(p.prior))]}

NoRec == [ds_id |-> "", pos |-> 0, fields |-> NoFields]

\* the snapshot get_json loads
Snapshot == [k \in KeySet |-> NodeB]

\* the flags of a run: at most one of the two force flags is set, and a
\* forced run names its dataset
Configs ==
  {c \in [env : {"dev", "prod"}, option : {"full", Keys[1]},
          force_update : BOOLEAN, force_model : {"", "award"}, resume : BOOLEAN] :
     /\ ~(c.force_update /\ c.force_model # "")
     /\ (c.force_update \/ c.force_model # "") => c.option # "full"}

\* the Progress Ledger an earlier run left: a run that is resumed left the
\* first dataset or a dataset of another snapshot in it
PrevFiles(resume) == IF resume THEN {<<Keys[1]>>, <<OldKey>>} ELSE {<<>>, <<OldKey>>}

\* no clear_model call is under way
NoClear ==
  /\ clear_pc = "idle"
  /\ model_exists = FALSE
  /\ model_count = 0
  /\ model_recs = 0
  /\ nr_batches = 0
  /\ batch_i = 0
  /\ deleted_with = 0

\* no deleteData call is under way
NoDelete ==
  /\ del_pc = "idle"
  /\ log_bound = FALSE
  /\ node_expired = FALSE
  /\ modelNode = <<>>
  /\ del_at = 0
  /\ oldRecs = <<>>
  /\ recordCache = {}
  /\ cache0 = {}
  /\ remote = {}

\* no collection is being compared with its Ledger field, and no call that
\* is checked on its own is under way
NoCollection ==
  /\ sub_node = <<>>
  /\ hashed_node = <<>>
  /\ stored = NoneField
  /\ looks_changed = "unset"
  /\ NoClear
  /\ NoDelete

\* the local variables of update_datasets at entry, and the histories
AtEntry ==
  /\ nextRid = 20
  /\ faults = 0
  /\ pc = "start"
  /\ work = <<>>
  /\ idx = 0
  /\ dsId = ""
  /\ updated_ds_list = <<>>
  /\ failedDatasets = <<>>
  /\ sync_dict = {}
  /\ sync_rec = NoRec
  /\ record_cache = EmptyCache
  /\ update_recs = [t \in TypeNames |-> FALSE]
  /\ ti = 0
  /\ bfCache = [ds |-> "", names |-> {}]
  /\ writes = {}
  /\ reconciled = [k \in KeySet |-> {}]
  /\ failedTypes = [k \in KeySet |-> {}]
  /\ iterated = <<>>
  /\ out = "unset"
  /\ calls = <<>>

Init ==
  /\ cfg \in Configs
  /\ newJson = Snapshot
  /\ prevFile \in PrevFiles(cfg.resume)
  /\ resumeFile = prevFile
  /\ \E prof \in [KeySet -> Profiles] :
       /\ \A k \in KeySet : k # Keys[1] => prof[k] \in LaterProfiles
       /\ \A k \in KeySet :
            cfg.option \notin {"full", k} =>
              prof[k] = FirstProfile
       /\ plat = [k \in KeySet |-> PlatOf(k, prof[k])]
       /\ ledger = UNION {LedgerOf(k, prof[k]) : k \in KeySet}
  /\ ledger0 = ledger
  /\ plat0 = plat
  /\ AtEntry
  /\ record_list = 0
  /\ create_calls = <<>>
  /\ NoCollection

-----------------------------------------------------------------------------
(* update_datasets *)

Key == work[idx]

MayFail == faults < MaxFaults

\* base.get_resume_list: the list stored in the resume file
get_resume_list == resumeFile

\* the keys of a snapshot in iteration order
RECURSIVE KeysIn(_, _)
KeysIn(json, i) ==
  IF i > Len(Keys) THEN <<>>
  ELSE IF Keys[i] \in DOMAIN json THEN <<Keys[i]>> \o KeysIn(json, i + 1)
       ELSE KeysIn(json, i + 1)

\* lines 85-86: the listing of at most SyncLimit Ledger records, as a dict by
\* ds_id (of two records of one dataset the later one stays)
SyncDict(recs) ==
  LET seen == {r \in recs : r.pos <= SyncLimit}
  IN {r \in seen : \A q \in seen : q.ds_id = r.ds_id => q.pos <= r.pos}

\* lines 129-152
UpdateRecs(node, rec) ==
  LET changed == IF cfg.force_update THEN [t \in TypeNames |-> TRUE]
                 ELSE [t \in TypeNames |-> get_recordset_hash(node, t) # rec.fields[t]]
  IN IF cfg.force_model # "" THEN [changed EXCEPT ![cfg.force_model] = TRUE]
     ELSE changed

AnyChanged == \E t \in TypeNames : update_recs[t]

Log(k, ws) ==
  writes \cup {[key |-> k, kind |-> w.kind, model |-> w.model, items |-> w.items] :
                 w \in ws}

W(kind, model) == {[kind |-> kind, model |-> model, items |-> {}]}

\* lines 62-86
Start ==
  /\ pc = "start"
  /\ updated_ds_list' = IF cfg.resume THEN get_resume_list ELSE <<>>
  /\ newJson' = IF cfg.option # "full"
                THEN [k \in {cfg.option} |-> newJson[cfg.option]]
                ELSE newJson
  /\ work' = KeysIn(newJson', 1)
  /\ sync_dict' = SyncDict(ledger)
  /\ idx' = 1
  /\ pc' = "loop"
  /\ UNCHANGED <<fixed, batchVars, hashVars, callVars, out, calls, resumeFile, ledger, plat, nextRid, faults, dsId,
                 failedDatasets, sync_rec, record_cache, update_recs, ti, bfCache,
                 writes, reconciled, failedTypes, iterated>>

\* a filter that lets every dataset through
ResumeSkips_none == FALSE

\* line 92: the dataset is in the list read from the resume file
ResumeSkips == Key \in Range(updated_ds_list)

\* lines 92-94
SkipResume ==
  /\ pc = "loop" /\ idx <= Len(work)
  /\ ResumeSkips
  /\ idx' = idx + 1
  /\ UNCHANGED <<fixed, batchVars, hashVars, callVars, out, calls, newJson, resumeFile, ledger, plat, nextRid,
                 faults, pc, work, dsId, updated_ds_list, failedDatasets, sync_dict,
                 sync_rec, record_cache, update_recs, ti, bfCache, writes, reconciled,
                 failedTypes, iterated>>

\* lines 118-123, 129-152: the Ledger record of the dataset is in sync_dict
LedgerFound ==
  /\ pc = "loop" /\ idx <= Len(work)
  /\ ~ResumeSkips
  /\ \E r \in sync_dict :
       /\ r.ds_id = Key
       /\ sync_rec' = r
       /\ update_recs' = UpdateRecs(newJson[Key], r)
  /\ dsId' = Key
  /\ record_cache' = EmptyCache
  /\ pc' = "try"
  /\ UNCHANGED <<fixed, batchVars, hashVars, callVars, out, calls, newJson, resumeFile, ledger, plat, nextRid,
                 faults, work, idx, updated_ds_list, failedDatasets, sync_dict, ti,
                 bfCache, writes, reconciled, failedTypes, iterated>>

NewLedgerRec(k) ==
  [ds_id |-> k, fields |-> NoFields,
   pos |-> 1 + (CHOOSE n \in {0} \cup {r.pos : r \in ledger} :
                  \A r \in ledger : r.pos <= n)]

\* lines 124-126, 129-152: no record in sync_dict, one is created
LedgerCreate ==
  /\ pc = "loop" /\ idx <= Len(work)
  /\ ~ResumeSkips
  /\ \A r \in sync_dict : r.ds_id # Key
  /\ ledger' = ledger \cup {NewLedgerRec(Key)}
  /\ sync_rec' = NewLedgerRec(Key)
  /\ update_recs' = UpdateRecs(newJson[Key], NewLedgerRec(Key))
  /\ writes' = Log(Key, W("ledger_create", "dataset"))
  /\ dsId' = Key
  /\ record_cache' = EmptyCache
  /\ pc' = "try"
  /\ UNCHANGED <<fixed, batchVars, hashVars, callVars, out, calls, newJson, resumeFile, plat, nextRid, faults,
                 work, idx, updated_ds_list, failedDatasets, sync_dict, ti, bfCache,
                 reconciled, failedTypes, iterated>>

\* line 126 raises: the call is outside the try block and ends the run
LedgerCreateFails ==
  /\ pc = "loop" /\ idx <= Len(work)
  /\ ~ResumeSkips
  /\ \A r \in sync_dict : r.ds_id # Key
  /\ MayFail
  /\ faults' = faults + 1
  /\ writes' = Log(Key, W("ledger_create", "dataset"))
  /\ dsId' = Key
  /\ record_cache' = EmptyCache
  /\ pc' = "crashed"
  /\ UNCHANGED <<fixed, batchVars, hashVars, callVars, out, calls, newJson, resumeFile, ledger, plat, nextRid,
                 work, idx, updated_ds_list, failedDatasets, sync_dict, sync_rec,
                 update_recs, ti, bfCache, reconciled, failedTypes, iterated>>

\* lines 160, 183-184, then 194-196
NothingChanged ==
  /\ pc = "try"
  /\ ~AnyChanged
  /\ pc' = "append"
  /\ UNCHANGED <<fixed, batchVars, hashVars, callVars, out, calls, newJson, resumeFile, ledger, plat, nextRid,
                 faults, work, idx, dsId, updated_ds_list, failedDatasets, sync_dict,
                 sync_rec, record_cache, update_recs, ti, bfCache, writes, reconciled,
                 failedTypes, iterated>>

\* bf_io.get_create_dataset: the id of the dataset object
DsIdOf(k) == IF plat[k].exists = "byId" THEN k ELSE NewId(k)

\* lines 160-169: the dataset is fetched, or created under the name dsId;
\* in prod a dataset the curation team does not manage is left (continue)
OpenDataset ==
  /\ pc = "try"
  /\ AnyChanged
  /\ plat' = IF plat[Key].exists = "absent"
             THEN [plat EXCEPT ![Key].exists = "byName"] ELSE plat
  /\ writes' = IF plat[Key].exists = "absent"
               THEN Log(Key, W("dataset_create", "")) ELSE writes
  /\ dsId' = DsIdOf(Key)
  /\ IF cfg.env = "prod" /\ ~plat[Key].access
     THEN /\ pc' = "loop"
          /\ idx' = idx + 1
          /\ iterated' = Append(iterated, Key)
          /\ ti' = ti
     ELSE /\ pc' = "add_data"
          /\ ti' = 1
          /\ UNCHANGED <<idx, iterated>>
  /\ UNCHANGED <<fixed, batchVars, hashVars, callVars, out, calls, newJson, resumeFile, ledger, nextRid, faults,
                 work, updated_ds_list, failedDatasets, sync_dict, sync_rec,
                 record_cache, update_recs, bfCache, reconciled, failedTypes>>

\* bf.create_dataset fails: caught at line 186
OpenDatasetFails ==
  /\ pc = "try"
  /\ AnyChanged
  /\ plat[Key].exists = "absent"
  /\ MayFail
  /\ faults' = faults + 1
  /\ writes' = Log(Key, W("dataset_create", ""))
  /\ pc' = "except"
  /\ UNCHANGED <<fixed, batchVars, hashVars, callVars, out, calls, newJson, resumeFile, ledger, plat, nextRid,
                 work, idx, dsId, updated_ds_list, failedDatasets, sync_dict, sync_rec,
                 record_cache, update_recs, ti, bfCache, reconciled, failedTypes,
                 iterated>>

CurSt == StOf(plat[Key], record_cache, bfCache, dsId, nextRid)

\* the effect of a step's calls on the platform, the caches and the histories
Commit(st) ==
  /\ plat' = [plat EXCEPT ![Key].models = st.models, ![Key].recs = st.recs,
                          ![Key].linked = st.linked, ![Key].edges = st.edges]
  /\ record_cache' = st.cache
  /\ bfCache' = st.bf
  /\ nextRid' = st.next
  /\ writes' = Log(Key, st.writes)
  /\ faults' = IF st.failed THEN faults + 1 ELSE faults

AfterAddData == IF ti = Len(RecTypes) THEN "add_links" ELSE "add_data"

\* add_data: an entity type whose update_recs entry is False is skipped
SkipType ==
  /\ pc = "add_data"
  /\ ~update_recs[RecTypes[ti]]
  /\ pc' = AfterAddData
  /\ ti' = ti + 1
  /\ UNCHANGED <<fixed, batchVars, hashVars, callVars, out, calls, newJson, resumeFile, ledger, plat, nextRid,
                 faults, work, idx, dsId, updated_ds_list, failedDatasets, sync_dict,
                 sync_rec, record_cache, update_recs, bfCache, writes, reconciled,
                 failedTypes, iterated>>

\* add_data: the reconciliation of one entity type, then sync_rec._set_value;
\* an exception leaves add_data and is caught at line 186
ReconcileType ==
  /\ pc = "add_data"
  /\ update_recs[RecTypes[ti]]
  /\ \E f1, f2 \in FailPoints :
       /\ (f1 = "none" /\ f2 = "none") \/ MayFail
       /\ f2 = "none" \/ RecTypes[ti] = "subject"
       /\ \E t \in {RecTypes[ti]} :
          \E st \in {AddType(CurSt, t, newJson[Key], cfg.force_model, f1, f2)} :
             /\ Commit(st)
             /\ reconciled' = [reconciled EXCEPT ![Key] = @ \cup {t}]
             /\ failedTypes' = IF st.failed
                               THEN [failedTypes EXCEPT ![Key] = @ \cup {t}]
                               ELSE failedTypes
             /\ IF st.raised
                THEN /\ pc' = "except"
                     /\ UNCHANGED <<sync_rec, ti>>
                ELSE /\ sync_rec' = [sync_rec EXCEPT
                                       !.fields[t] = get_recordset_hash(newJson[Key], t)]
                     /\ pc' = AfterAddData
                     /\ ti' = ti + 1
  /\ UNCHANGED <<fixed, batchVars, hashVars, callVars, out, calls, newJson, resumeFile, ledger, work, idx, dsId,
                 updated_ds_list, failedDatasets, sync_dict, update_recs, iterated>>

\* add_links, lines 627-637: the link passes that run
LinkPasses ==
  (IF update_recs["summary"] \/ update_recs["term"] \/ update_recs["award"]
      \/ update_recs["researcher"] THEN {"summary"} ELSE {})
  \cup (IF update_recs["subject"] \/ update_recs["term"] THEN {"subject"} ELSE {})
  \cup (IF update_recs["sample"] \/ update_recs["term"] \/ update_recs["subject"]
        THEN {"sample"} ELSE {})

\* line 175: add_links; an exception is caught at line 186
AddLinks ==
  /\ pc = "add_links"
  /\ \E st \in {add_links(CurSt, newJson[Key], update_recs)} :
        /\ Commit(st)
        /\ calls' = st.calls
        /\ pc' = IF st.raised THEN "except" ELSE "add_tags"
  /\ UNCHANGED <<fixed, batchVars, hashVars, callVars, out, newJson, resumeFile, ledger, work, idx, dsId,
                 updated_ds_list, failedDatasets, sync_dict, sync_rec, update_recs, ti,
                 reconciled, failedTypes, iterated>>

\* the first remote call of add_links fails: caught at line 186
AddLinksFails ==
  /\ pc = "add_links"
  /\ LinkPasses # {}
  /\ MayFail
  /\ faults' = faults + 1
  /\ calls' = <<[kind |-> "failed", model |-> "", rec |-> 0, items |-> {}]>>
  /\ pc' = "except"
  /\ UNCHANGED <<fixed, batchVars, hashVars, callVars, out, newJson, resumeFile, ledger, plat, nextRid,
                 work, idx, dsId, updated_ds_list, failedDatasets, sync_dict, sync_rec,
                 record_cache, update_recs, ti, bfCache, writes, reconciled, failedTypes,
                 iterated>>

\* add_tags, lines 808-820
AddTags ==
  /\ pc = "add_tags"
  /\ IF update_recs["tag"]
     THEN /\ plat' = [plat EXCEPT ![Key].tags = TagsOf(newJson[Key])]
          /\ writes' = Log(Key, W("tags", ""))
          /\ sync_rec' = [sync_rec EXCEPT
                            !.fields["tag"] = get_recordset_hash(newJson[Key], "tag")]
     ELSE UNCHANGED <<plat, writes, sync_rec>>
  /\ pc' = "sync_update"
  /\ UNCHANGED <<fixed, batchVars, hashVars, callVars, out, calls, newJson, resumeFile, ledger, nextRid, faults,
                 work, idx, dsId, updated_ds_list, failedDatasets, sync_dict,
                 record_cache, update_recs, ti, bfCache, reconciled, failedTypes,
                 iterated>>

\* ds.update() fails: caught at line 186
AddTagsFails ==
  /\ pc = "add_tags"
  /\ update_recs["tag"]
  /\ MayFail
  /\ faults' = faults + 1
  /\ writes' = Log(Key, W("tags", ""))
  /\ pc' = "except"
  /\ UNCHANGED <<fixed, batchVars, hashVars, callVars, out, calls, newJson, resumeFile, ledger, plat, nextRid,
                 work, idx, dsId, updated_ds_list, failedDatasets, sync_dict, sync_rec,
                 record_cache, update_recs, ti, bfCache, reconciled, failedTypes,
                 iterated>>

\* line 182: sync_rec.update() stores the fields set in memory
SyncUpdate ==
  /\ pc = "sync_update"
  /\ ledger' = {r \in ledger : r.pos # sync_rec.pos} \cup {sync_rec}
  /\ writes' = Log(Key, W("ledger_update", "dataset"))
  /\ pc' = "append"
  /\ UNCHANGED <<fixed, batchVars, hashVars, callVars, out, calls, newJson, resumeFile, plat, nextRid, faults,
                 work, idx, dsId, updated_ds_list, failedDatasets, sync_dict, sync_rec,
                 record_cache, update_recs, ti, bfCache, reconciled, failedTypes,
                 iterated>>

\* sync_rec.update() fails: caught at line 186
SyncUpdateFails ==
  /\ pc = "sync_update"
  /\ MayFail
  /\ faults' = faults + 1
  /\ writes' = Log(Key, W("ledger_update", "dataset"))
  /\ pc' = "except"
  /\ UNCHANGED <<fixed, batchVars, hashVars, callVars, out, calls, newJson, resumeFile, ledger, plat, nextRid,
                 work, idx, dsId, updated_ds_list, failedDatasets, sync_dict, sync_rec,
                 record_cache, update_recs, ti, bfCache, reconciled, failedTypes,
                 iterated>>

\* lines 186-190
Except ==
  /\ pc = "except"
  /\ failedDatasets' = Append(failedDatasets, dsId)
  /\ pc' = "append"
  /\ UNCHANGED <<fixed, batchVars, hashVars, callVars, out, calls, newJson, resumeFile, ledger, plat, nextRid,
                 faults, work, idx, dsId, updated_ds_list, sync_dict, sync_rec,
                 record_cache, update_recs, ti, bfCache, writes, reconciled,
                 failedTypes, iterated>>

\* lines 194-196: the id is appended and the whole list written to the file
AppendResume ==
  /\ pc = "append"
  /\ updated_ds_list' = Append(updated_ds_list, dsId)
  /\ resumeFile' = updated_ds_list'
  /\ iterated' = Append(iterated, Key)
  /\ idx' = idx + 1
  /\ pc' = "loop"
  /\ UNCHANGED <<fixed, batchVars, hashVars, callVars, out, calls, newJson, ledger, plat, nextRid, faults, work,
                 dsId, failedDatasets, sync_dict, sync_rec, record_cache, update_recs,
                 ti, bfCache, writes, reconciled, failedTypes>>

\* line 210: the bare return statement of update_datasets yields None
ReturnValue == "None"

\* lines 200-210: the loop is over; in prod the dashboard gets an entry;
\* failedDatasets is logged and None is returned
Finish ==
  /\ pc = "loop" /\ idx > Len(work)
  /\ out' = ReturnValue
  /\ writes' = IF cfg.env = "prod"
               THEN writes \cup {[key |-> "", kind |-> "dashboard", model |-> "Update_Run",
                                items |-> {}]}
               ELSE writes
  /\ pc' = "done"
  /\ UNCHANGED <<fixed, batchVars, hashVars, callVars, calls, newJson, resumeFile, ledger, plat, nextRid,
                 faults, work, idx, dsId, updated_ds_list, failedDatasets, sync_dict,
                 sync_rec, record_cache, update_recs, ti, bfCache, reconciled,
                 failedTypes, iterated>>

Next ==
  \/ Start
  \/ SkipResume
  \/ LedgerFound
  \/ LedgerCreate
  \/ LedgerCreateFails
  \/ NothingChanged
  \/ OpenDataset
  \/ OpenDatasetFails
  \/ SkipType
  \/ ReconcileType
  \/ AddLinks
  \/ AddLinksFails
  \/ AddTags
  \/ AddTagsFails
  \/ SyncUpdate
  \/ SyncUpdateFails
  \/ Except
  \/ AppendResume
  \/ Finish

Spec == Init /\ [][Next]_vars

-----------------------------------------------------------------------------
(* Properties *)

WritesFor(k) == {w \in writes : w.key = k}

LedgerRecs(recs, k) == {r \in recs : r.ds_id = k}

NoForce == ~cfg.force_update /\ cfg.force_model = ""

\* the model names of an entity type
ModelsOfType(t) == IF t = "subject" THEN {"human_subject", "animal_subject"} ELSE {t}

\* the local ids a reconciliation of model m submitted for creation
Submitted(k, m) ==
  UNION {w.items : w \in {x \in WritesFor(k) : x.kind = "record_create" /\ x.model = m}}

\* the local ids of a collection that belong to model m
LidsFor(coll, m) ==
  {l \in DOMAIN coll : /\ m = "human_subject" => coll[l].human
                       /\ m = "animal_subject" => ~coll[l].human}

RemoteHashes(k, m) == {r.hash : r \in {x \in plat0[k].recs : x.model = m}}

LocalHashes(coll) == {coll[l].hash : l \in DOMAIN coll}

\* C1: idempotence. A run without force flags issues no remote write for a
\* dataset that has a Ledger record whose fields all equal the hashes of the
\* snapshot's collections.
C1_Idempotence ==
  \A k \in KeySet :
    (NoForce /\ \E r \in LedgerRecs(ledger0, k) : r.fields = FieldsOf(Snapshot[k]))
      => WritesFor(k) = {}

\* C2: creates. After the non-forced reconciliation of an entity type in which
\* no remote call failed, the records submitted for creation are the local ids
\* whose hash is not among the hashes of the remote records of the model.
C2_DiffCreates ==
  \A k \in KeySet : \A t \in reconciled[k] \ {"summary"} :
    (NoForce /\ faults = 0)
      => \A m \in ModelsOfType(t) :
           Submitted(k, m) = {l \in LidsFor(Snapshot[k][t], m) :
                                Snapshot[k][t][l].hash \notin RemoteHashes(k, m)}

\* C3: removes. After the non-forced reconciliation of an entity type in which
\* no remote call failed, a remote record of the model is gone exactly when
\* its stored hash is absent from the hashes of the local collection.
C3_DiffRemoves ==
  \A k \in KeySet : \A t \in reconciled[k] \ {"summary"} :
    (NoForce /\ faults = 0)
      => \A r \in plat0[k].recs :
           r.model \in ModelsOfType(t)
             => (r \notin plat[k].recs <=> r.hash \notin LocalHashes(Snapshot[k][t]))

\* the stored Ledger field of entity type t of dataset k: the field of the
\* record the listing shows last, None when there is no record
StoredField(recs, k, t) ==
  IF LedgerRecs(recs, k) = {} THEN NoneField
  ELSE (CHOOSE r \in LedgerRecs(recs, k) :
          \A q \in LedgerRecs(recs, k) : q.pos <= r.pos).fields[t]

\* C4: in a run without force flags, the stored Ledger field of an entity
\* type in whose reconciliation a remote call failed keeps the value it had
\* before the run.
C4_LedgerOnlyAfterSuccess ==
  NoForce =>
    \A k \in KeySet : \A t \in failedTypes[k] :
      StoredField(ledger, k, t) = StoredField(ledger0, k, t)

\* C5: when the processing of a dataset ends, in a run without force flags,
\* after a remote call failed in one entity type, every entity type marked for
\* update has been reconciled.
C5_RemainingTypesReconciled ==
  (NoForce /\ pc = "append" /\ failedTypes[Key] # {})
    => \A t \in Range(RecTypes) : update_recs[t] => t \in reconciled[Key]

\* the list q begins with the list p
IsPrefix(p, q) == Len(p) <= Len(q) /\ \A i \in 1..Len(p) : q[i] = p[i]

C7_PersistedAfterEach ==
  (NoForce /\ pc \in {"loop", "done"}) => \A i \in 1..Len(iterated) : iterated[i] \in Range(resumeFile)

\* the steps of the processing of one dataset, after the resume filter
Processing == {"try", "add_data", "add_links", "add_tags", "sync_update", "except", "append"}

\* C8: on a run without the resume flag and without force flags, the stored Progress Ledger holds no
\* id of the previous run while the first dataset is processed.
C8_TruncatedOnFreshRun ==
  (NoForce /\ ~cfg.resume /\ idx = 1 /\ pc \in Processing)
    => \A i \in 1..Len(resumeFile) : resumeFile[i] \notin Range(prevFile)

\* every Ledger record of dataset k is within the listing of line 85
Listed(k) == \A r \in LedgerRecs(ledger0, k) : r.pos <= SyncLimit

\* C9: no remote write is issued for a dataset the credentials have no write
\* authorization for, and its Ledger records stay as they were (stated for
\* a run without force flags and the datasets whose Ledger records, if any,
\* the listing shows).
C9_NoAccessNoWrites ==
  \A k \in KeySet :
    (NoForce /\ plat0[k].exists = "byId" /\ ~plat0[k].access /\ Listed(k))
      => WritesFor(k) = {} /\ LedgerRecs(ledger, k) = LedgerRecs(ledger0, k)

\* the kinds of write on the records, models, links and tags of a dataset
DataWrites == {"record_create", "record_delete", "model_create", "model_update",
               "model_delete", "link", "relate", "placeholder_create", "tags"}

\* C10: no record, model, link or tag write is issued for a dataset in a
\* publication state that forbids writes, and its Ledger records stay as
\* they were (stated for a run without force flags and the datasets that
\* have a Ledger record in the listing and that the credentials may write).
C10_LockedNoWrites ==
  \A k \in KeySet :
    (NoForce /\ plat0[k].locked /\ plat0[k].access
       /\ Listed(k) /\ LedgerRecs(ledger0, k) # {})
      => /\ \A w \in WritesFor(k) : w.kind \notin DataWrites
         /\ LedgerRecs(ledger, k) = LedgerRecs(ledger0, k)

\* the run is over: update_datasets returned or an exception left it
RunEnded == pc \in {"done", "crashed"}

\* C11: when the run is over, every dataset of the work list that comes after
\* the dataset the run was at has had its iteration, or was filtered out by
\* the resume list: no failure ends the run before the later datasets
\* (stated for the runs whose Ledger records are all within the listing).
C11_NeverAborts ==
  (RunEnded /\ \A k \in KeySet : Listed(k)) =>
    \A j \in 1..Len(work) :
      j > idx => (work[j] \in Range(iterated) \/ work[j] \in Range(updated_ds_list))

\* C12: when update_datasets has returned (no force flags), every dataset with a failed entity
\* type is in failedDatasets (under its key or under the id it was created
\* with), and the value handed to the update command differs from the value
\* of a run without failure when a remote call failed.
C12_FailuresReported ==
  (NoForce /\ pc = "done") =>
    /\ \A k \in KeySet :
         failedTypes[k] # {} => {k, NewId(k)} \cap Range(failedDatasets) # {}
    /\ faults > 0 => out # "None"

-----------------------------------------------------------------------------
(* update_records, lines 472-489: the creation of the staged records, for  *)
(* every length of record_list                                              *)

\* the longest record_list
MaxStaged == 450

\* the call of update_datasets is not looked at: no run has started
Idle ==
  /\ cfg = [env |-> "dev", option |-> "full", force_update |-> FALSE,
            force_model |-> "", resume |-> FALSE]
  /\ newJson = Snapshot
  /\ prevFile = <<>>
  /\ resumeFile = <<>>
  /\ plat = [k \in KeySet |-> FreshDs("byId", TRUE, FALSE)]
  /\ plat0 = plat
  /\ ledger = {}
  /\ ledger0 = {}
  /\ AtEntry

mainVars == <<cfg, newJson, resumeFile, prevFile, ledger, ledger0, plat0, plat, nextRid,
              faults, pc, work, idx, dsId, updated_ds_list, failedDatasets, sync_dict,
              sync_rec, record_cache, update_recs, ti, bfCache, writes, reconciled,
              failedTypes, iterated, out, calls>>

BatchInit ==
  /\ Idle
  /\ record_list \in 0..MaxStaged
  /\ create_calls = <<>>
  /\ NoCollection

\* line 472: nothing is created for an empty record_list
Calls(len) == IF len = 0 THEN <<>> ELSE BatchSlices(len)

\* lines 479-485: the next call of model.create_records
CreateCall ==
  /\ Len(create_calls) < Len(Calls(record_list))
  /\ create_calls' = Append(create_calls, Calls(record_list)[Len(create_calls) + 1])
  /\ UNCHANGED <<mainVars, hashVars, callVars, record_list>>

BatchNext == CreateCall

BatchSpec == BatchInit /\ [][BatchNext]_vars

\* the number of records of a slice <<first, last>>
SliceSize(sl) == IF sl[2] < sl[1] THEN 0 ELSE sl[2] - sl[1] + 1

\* C13: every call of create_records carries at most BatchSize records.
C13_BatchAtMost100 ==
  \A i \in 1..Len(create_calls) : SliceSize(create_calls[i]) <= BatchSize

\* Scenario A: dataset k was synchronised from NodeA (term collection {T1})
\* by an earlier run, and its Ledger record, within the listing, holds the
\* hashes of NodeA
ScenarioA(k) ==
  /\ NoForce
  /\ plat0[k] = SyncedDs(k, TRUE, FALSE, NodeA)
  /\ \E r \in LedgerRecs(ledger0, k) : r.fields = FieldsOf(NodeA) /\ r.pos <= SyncLimit
  /\ LocalHashes(Snapshot[k].term) = LocalHashes(NodeA.term) \cup {2}

\* the remote records of model m of dataset k for which a delete was issued
Removed(k, m) ==
  UNION {w.items : w \in {x \in WritesFor(k) : x.kind = "record_delete" /\ x.model = m}}

\* C14: Scenario A. When the processing of such a dataset ends with no remote
\* call having failed, exactly the term T2 was submitted for creation, no
\* term record was removed, and the Ledger's term field is the hash of the
\* snapshot's term collection {T1, T2}.
C14_ScenarioA ==
  (pc = "append" /\ ScenarioA(Key) /\ faults = 0)
    => /\ Submitted(Key, "term") = {2}
       /\ Removed(Key, "term") = {}
       /\ StoredField(ledger, Key, "term") = get_recordset_hash(Snapshot[Key], "term")

\* Scenario C: the run forces the entity type award on dataset k, whose
\* Ledger record, within the listing, holds the hashes of the snapshot
ScenarioC(k) ==
  /\ cfg.force_model = "award"
  /\ plat0[k] = SyncedDs(k, TRUE, FALSE, Snapshot[k])
  /\ \E r \in LedgerRecs(ledger0, k) : r.fields = FieldsOf(Snapshot[k]) /\ r.pos <= SyncLimit

\* C15: Scenario C. When the processing of such a dataset ends with no remote
\* call having failed, the award reconciliation has run and the Ledger record
\* has been written again, its award field being the hash of the snapshot's
\* award collection.
C15_ScenarioC ==
  (pc = "append" /\ ScenarioC(Key) /\ faults = 0)
    => /\ "award" \in reconciled[Key]
       /\ \E w \in WritesFor(Key) : w.kind = "ledger_update"
       /\ StoredField(ledger, Key, "award") = get_recordset_hash(Snapshot[Key], "award")

\* C16: force-update. After the reconciliation of an entity type in a run
\* with the force-update flag, in which no remote call failed, every local
\* record of the collection has been submitted for creation, whatever the
\* hashes of the remote records.
C16_ForceStagesAll ==
  \A k \in KeySet : \A t \in reconciled[k] \ {"summary"} :
    (cfg.force_update /\ faults = 0)
      => \A m \in ModelsOfType(t) : Submitted(k, m) = LidsFor(Snapshot[k][t], m)

-----------------------------------------------------------------------------
(* The link phase of a dataset that holds records of earlier runs: the run  *)
(* is taken up at the call of add_links, after add_data reconciled the      *)
(* entity types the Ledger marks as changed                                 *)

\* the most records of earlier runs in the dataset
MaxPool == 2

\* a json id that no collection of the snapshot holds
NoSuchId == MaxLid + 1

PoolRec(m, rid, lid) == [model |-> m, rid |-> rid, hash |-> 1, lid |-> lid]

\* records that earlier runs left in the dataset, within the first
\* ResolveLimit records of their model or beyond them
Pool ==
  {PoolRec("award", 1, 1), PoolRec("award", ResolveLimit + 1, 1),
   PoolRec("award", ResolveLimit + 2, 1),
   PoolRec("term", 2, 1), PoolRec("term", ResolveLimit + 3, 1),
   PoolRec("term", ResolveLimit + 4, PlaceholderBase + NoSuchId),
   PoolRec("sample", 3, 1), PoolRec("sample", ResolveLimit + 5, 1),
   PoolRec("summary", 4, 0), PoolRec("summary", 5, 0),
   PoolRec("animal_subject", 6, 2)}

\* the references of the documents
LinkDocs ==
  {[NodeA EXCEPT !.links = [awards |-> a,
                            rels |-> <<[name |-> "isAbout", target |-> "term", ids |-> r]>>,
                            terms |-> (1 :> <<1>>) @@ (2 :> t),
                            derived |-> (1 :> d)]] :
     a \in {<<1>>, <<NoSuchId>>, <<1, 1>>},
     r \in {<<1>>, <<NoSuchId>>},
     t \in {<<1>>, <<1, 1>>, <<1, 2>>, <<NoSuchId, NoSuchId>>},
     d \in {1, 2}}

\* the entity types the Ledger marks as changed
LinkPatterns ==
  {{"term"}, {"subject", "tag"}, {"sample"}, {"summary"}, {"researcher"}, TypeNames}

\* the links and relationships the earlier runs gave the records: the award
\* and the term of the summary, the species of the animal subject
PoolEdges(recs) ==
  SetToBag({[from |-> s.rid, name |-> "hasAwardNumber", to |-> a.rid] :
              s \in {r \in recs : r.model = "summary"},
              a \in {r \in recs : r.model = "award" /\ r.lid = 1}}
           \cup {[from |-> s.rid, name |-> "isAbout", to |-> t.rid] :
                   s \in {r \in recs : r.model = "summary"},
                   t \in {r \in recs : r.model = "term" /\ r.lid = 1}}
           \cup {[from |-> s.rid, name |-> "animalSubjectIsOfSpecies", to |-> t.rid] :
                   s \in {r \in recs : r.model = "animal_subject"},
                   t \in {r \in recs : r.model = "term" /\ r.lid = 1}})

\* the dataset before the run: the models of the unchanged entity types with
\* the records left in them (a changed type has no model yet: add_data
\* reaches add_links only when it created every model it reconciled)
PoolDs(changed, left) ==
  LET models == UNION {ModelsOfType(t) : t \in (TypeNames \ {"tag"}) \ changed}
  IN [exists |-> "byId", access |-> TRUE, locked |-> FALSE,
      models |-> models, recs |-> {r \in left : r.model \in models}, tags |-> <<>>,
      linked |-> IF "sample" \in models THEN "human_subject" ELSE "",
      edges |-> PoolEdges({r \in left : r.model \in models})]

\* add_data on the changed entity types; the creation of the records of
\* entity type ft fails (lines 484-487 catch the failure)
RECURSIVE AddChanged(_, _, _, _, _)
AddChanged(st, node, changed, ft, i) ==
  IF i > Len(RecTypes) THEN st
  ELSE IF RecTypes[i] \notin changed THEN AddChanged(st, node, changed, ft, i + 1)
  ELSE LET f == IF RecTypes[i] = ft THEN "create" ELSE "none"
       IN AddChanged(AddType(st, RecTypes[i], node, "", f, "none"), node, changed, ft, i + 1)

LinkInit ==
  \E doc \in LinkDocs, changed \in LinkPatterns,
     left \in {s \in SUBSET Pool : Cardinality(s) <= MaxPool},
     ft \in {"", "subject", "award"} :
    \E k \in {Keys[1]}, before \in {PoolDs(changed, left)},
       rec \in {[ds_id |-> Keys[1], pos |-> 1,
                 fields |-> [t \in TypeNames |->
                               IF t \in changed THEN NoneField
                               ELSE get_recordset_hash(doc, t)]]} :
     /\ left = before.recs
     /\ ft # "" => ft \in changed
     /\ \E st \in {AddChanged(StOf(before, EmptyCache, [ds |-> "", names |-> {}], k, 20),
                              doc, changed, ft, 1)} :
       /\ ~st.raised
       /\ cfg = [env |-> "dev", option |-> k, force_update |-> FALSE,
                 force_model |-> "", resume |-> FALSE]
       /\ newJson = [x \in {k} |-> doc]
       /\ prevFile = <<>>
       /\ resumeFile = <<>>
       /\ ledger = {rec}
       /\ ledger0 = ledger
       /\ plat0 = [x \in KeySet |-> IF x = k THEN before ELSE FreshDs("byId", TRUE, FALSE)]
       /\ plat = [plat0 EXCEPT ![k].models = st.models, ![k].recs = st.recs,
                               ![k].linked = st.linked, ![k].edges = st.edges]
       /\ nextRid = st.next
       /\ faults = IF st.failed THEN 1 ELSE 0
       /\ pc = "add_links"
       /\ work = <<k>>
       /\ idx = 1
       /\ dsId = k
       /\ updated_ds_list = <<>>
       /\ failedDatasets = <<>>
       /\ sync_dict = {rec}
       /\ sync_rec = [rec EXCEPT !.fields =
                        [t \in TypeNames |-> IF t = "tag" THEN rec.fields[t]
                                             ELSE get_recordset_hash(doc, t)]]
       /\ record_cache = st.cache
       /\ update_recs = [t \in TypeNames |-> t \in changed]
       /\ ti = Len(RecTypes) + 1
       /\ bfCache = st.bf
       /\ writes = {[key |-> k, kind |-> w.kind, model |-> w.model, items |-> w.items] :
                      w \in st.writes}
       /\ reconciled = [x \in KeySet |-> IF x = k THEN changed \ {"tag"} ELSE {}]
       /\ failedTypes = [x \in KeySet |-> IF x = k /\ st.failed THEN {ft} ELSE {}]
       /\ iterated = <<>>
       /\ out = "unset"
       /\ calls = <<>>
       /\ record_list = 0
       /\ create_calls = <<>>
       /\ NoCollection

LinkNext ==
  \/ AddLinks
  \/ AddLinksFails
  \/ AddTags
  \/ AddTagsFails
  \/ SyncUpdate
  \/ SyncUpdateFails
  \/ Except
  \/ AppendResume
  \/ Finish

LinkSpec == LinkInit /\ [][LinkNext]_vars

\* add_links left with an exception that no failing remote call caused
LinkRaised ==
  /\ pc = "except"
  /\ \A w \in WritesFor(Key) : w.kind \notin {"tags", "ledger_update"}
  /\ calls = <<>> \/ calls[1].kind # "failed"

\* a search of the link phase matched more than one record
Ambiguous ==
  \E i \in 1..Len(calls) : calls[i].kind = "search" /\ Cardinality(calls[i].items) > 1

\* C17: a reference that cannot be resolved never makes the link builder
\* raise: when add_links leaves with an exception, a search was ambiguous.
\* (The references that are dropped are the resolver returns with no record.)
C17_UnresolvedDropped == LinkRaised => Ambiguous

\* C18: an ambiguous search counts as "not found". When the processing of a
\* dataset in whose link phase a search matched more than one record ends,
\* with no remote call having failed, the dataset is not among the failed
\* datasets.
C18_AmbiguityIsNotFound ==
  (pc = "append" /\ Ambiguous /\ faults = 0) => dsId \notin Range(failedDatasets)

\* the resolver returned at place i of the call history after a search that
\* found the record (search, get, return)
FoundBySearch(i) ==
  /\ i > 2
  /\ calls[i].kind = "resolved"
  /\ calls[i - 1].kind = "get"
  /\ calls[i - 2].kind = "search" /\ calls[i - 2].model = calls[i].model

\* the place j of the call history is a later return of the resolver for the
\* same (entity type, json id) as place i
SameLookup(i, j) ==
  /\ i < j
  /\ calls[j].kind = "resolved"
  /\ calls[j].model = calls[i].model
  /\ calls[j].rec = calls[i].rec

\* C19: resolver fallback and caching. After a lookup that the search
\* resolved, the record is in record_cache under its json id, and every later
\* lookup of the same entity type and json id in the link phase returns the
\* same record id without a remote read of the resolver before its return.
C19_SearchResultCached ==
  \A i \in 1..Len(calls) :
    FoundBySearch(i) =>
      /\ pc \in {"add_tags", "except"} =>
           \E e \in Range(record_cache[calls[i].model]) :
             e.k = <<"lid", calls[i].rec>> /\ {e.r.rid} = calls[i].items
      /\ \A j \in 1..Len(calls) :
           SameLookup(i, j) =>
             calls[j].items = calls[i].items /\ calls[j - 1].kind \notin ResolverReads

\* the link phase looked one json id up twice, the first time through the
\* search
C19_Witness ==
  /\ pc = "add_tags"
  /\ \E i, j \in 1..Len(calls) : FoundBySearch(i) /\ SameLookup(i, j)

Placeholder(i) == calls[i].kind = "create_record" /\ calls[i].model = "term"

\* the place j of the call history is a return of the resolver for the term
\* the placeholder of place i was made for, later in the link phase
LaterLookup(i, j) ==
  /\ i < j
  /\ calls[j].kind = "resolved"
  /\ calls[j].model = "term"
  /\ calls[j].rec \in calls[i].items

\* C21: at most one placeholder per label. The link phase of a dataset never
\* creates two placeholder terms for the same label, and every resolution of
\* the label after the creation of its placeholder returns that record.
C21_OnePlaceholderPerLabel ==
  \A i \in 1..Len(calls) :
    Placeholder(i) =>
      \A j \in 1..Len(calls) :
        /\ (i < j /\ Placeholder(j)) => calls[j].items # calls[i].items
        /\ LaterLookup(i, j) => calls[j].items = {calls[i].rec}

\* the link phase made a placeholder for a term and resolved the same term
\* again afterwards
C21_Witness ==
  /\ pc = "add_tags"
  /\ \E i, j \in 1..Len(calls) : Placeholder(i) /\ LaterLookup(i, j)

\* the document names the references the earlier runs linked the records of
\* the dataset by
SameReferences == newJson[Keys[1]].links = NodeA.links

\* C22: the link builder is re-entrant. When the link phase has run on a
\* document with the references of the earlier runs, every link and
\* relationship a record carried before the run is carried exactly as often
\* as before: the builder adds no second copy of it.
C22_NoDuplicateLinks ==
  (pc = "add_tags" /\ SameReferences)
    => \A e \in DOMAIN plat0[Keys[1]].edges :
         CopiesIn(e, plat[Keys[1]].edges) <= CopiesIn(e, plat0[Keys[1]].edges)

\* the calls of the link phase that send record ids as targets
TargetCalls == {"create_links", "relate_to"}

\* the ids of the records the current dataset holds
LiveIds(p) == {r.rid : r \in p[Key].recs}

Succeeded(t) ==
  /\ t \in reconciled[Key] \ failedTypes[Key]
  /\ sync_rec.fields[t] = get_recordset_hash(newJson[Key], t)

\* C24: the Ledger follows every success. When the processing of a dataset
\* ends, the stored Ledger record holds the new collection hash of every
\* entity type whose reconciliation succeeded, whatever failed afterwards.
C24_LedgerHoldsSucceeded ==
  pc = "append"
    => \A t \in Range(RecTypes) :
         Succeeded(t) => StoredField(ledger, Key, t) = get_recordset_hash(newJson[Key], t)

\* no force flag applies to entity type t
Unforced(t) == ~cfg.force_update /\ cfg.force_model # t

\* the write calls that create or delete records, or delete a model
RecordWrites == {"record_create", "record_delete", "model_delete"}

\* C25: an unchanged entity type is left alone. For an entity type whose
\* collection hash equals the stored Ledger field and to which no force flag
\* applies, the run issues no create or delete call on the records or models
\* of the type and leaves the stored Ledger field as it was.
C25_UnchangedTypeUntouched ==
  \A k \in KeySet : \A t \in Range(RecTypes) :
    (Unforced(t) /\ StoredField(ledger0, k, t) = get_recordset_hash(Snapshot[k], t))
      => /\ \A w \in WritesFor(k) :
              w.kind \in RecordWrites => w.model \notin ModelsOfType(t)
         /\ StoredField(ledger, k, t) = StoredField(ledger0, k, t)

\* C26: the core never mutates the snapshot: when update_datasets has
\* returned, the loaded snapshot maps the same dataset ids to the same
\* documents as when get_json loaded it, whichever target and flags were given
C26_SnapshotUnchanged ==
  pc = "done" => newJson = Snapshot

-----------------------------------------------------------------------------
(* The Recordset Hasher and the comparison of update_datasets, lines        *)
(* 130-138, for every insertion order of one collection. A collection is a  *)
(* dict in insertion order: a sequence of entries [k, v], k the local id    *)
(* and v the record, itself a sequence of properties [name, value].         *)

\* the most records of the collection
MaxRecs == 2

\* the property names of a record, in sorted order
PropNames == <<"id", "label">>

\* the values of a property
PropValues == {1, 2}

\* the orders a dict's entries can be inserted in
Perms(d) == {p \in [1..Len(d) -> Range(d)] : \A i, j \in 1..Len(d) : p[i] = p[j] => i = j}

\* the records: every property has a value
Records ==
  {<<[name |-> PropNames[1], value |-> a], [name |-> PropNames[2], value |-> b]>> :
     a, b \in PropValues}

\* the collection f (local id -> record), written in ascending order
RECURSIVE Written(_, _)
Written(f, k) ==
  IF k > MaxRecs THEN <<>>
  ELSE IF k \in DOMAIN f THEN <<[k |-> k, v |-> f[k]]>> \o Written(f, k + 1)
       ELSE Written(f, k + 1)

\* a collection with the properties of each of its records in any order
RECURSIVE PropOrderings(_)
PropOrderings(d) ==
  IF d = <<>> THEN {<<>>}
  ELSE {<<[k |-> Head(d).k, v |-> p]>> \o rest :
          p \in Perms(Head(d).v), rest \in PropOrderings(Tail(d))}

\* the same collection in every insertion order of its records and of the
\* properties of each record
Orderings(d) == UNION {PropOrderings(p) : p \in Perms(d)}

\* the collections a snapshot can hold
Collections ==
  UNION {Orderings(Written(f, 1)) :
           f \in UNION {[K -> Records] : K \in SUBSET (1..MaxRecs)}}

\* what a collection says, whatever the order: local id -> property -> value
ContentOf(d) ==
  [k \in {e.k : e \in Range(d)} |->
     [n \in Range(PropNames) |->
        {p.value : p \in {q \in Range((CHOOSE e \in Range(d) : e.k = k).v) : q.name = n}}]]

\* the serialisation of the records in the order they were inserted in
CanonicalRecords_inserted(d, k) == d

\* the records of a collection sorted by key, from key k on
RECURSIVE CanonicalRecords(_, _)
CanonicalRecords(d, k) ==
  IF k > MaxRecs THEN <<>>
  ELSE SelectSeq(d, LAMBDA e : e.k = k) \o CanonicalRecords(d, k + 1)

\* the properties of a record sorted by name, from the i-th name on
RECURSIVE CanonicalProps(_, _)
CanonicalProps(props, i) ==
  IF i > Len(PropNames) THEN <<>>
  ELSE SelectSeq(props, LAMBDA p : p.name = PropNames[i]) \o CanonicalProps(props, i + 1)

PropIndex(name) == CHOOSE i \in 1..Len(PropNames) : PropNames[i] = name

RECURSIVE FlatProps(_)
FlatProps(props) ==
  IF props = <<>> THEN <<>>
  ELSE <<PropIndex(Head(props).name), Head(props).value>> \o FlatProps(Tail(props))

RECURSIVE FlatRecords(_)
FlatRecords(d) ==
  IF d = <<>> THEN <<>>
  ELSE <<Head(d).k>> \o FlatProps(CanonicalProps(Head(d).v, 1)) \o FlatRecords(Tail(d))

\* get_recordset_hash of a collection: the fingerprint of its canonical
\* (key-sorted) serialisation, equal for equal serialisations only
recordset_hash(d) == FlatRecords(CanonicalRecords(d, 1))

HashInit ==
  /\ Idle
  /\ record_list = 0
  /\ create_calls = <<>>
  /\ sub_node \in Collections
  /\ hashed_node = <<>>
  /\ stored = NoneField
  /\ looks_changed = "unset"
  /\ NoClear
  /\ NoDelete

\* add_data, sync_rec._set_value(type, get_recordset_hash(node[type])), and
\* line 182: the hash of the collection becomes the type's Ledger field
StoreHash ==
  /\ stored = NoneField
  /\ stored' = recordset_hash(sub_node)
  /\ hashed_node' = sub_node
  /\ UNCHANGED <<mainVars, batchVars, callVars, sub_node, looks_changed>>

\* the run after the one that stored the hash loads the collection,
\* unchanged, in another insertion order
Reload ==
  /\ stored # NoneField
  /\ sub_node = hashed_node
  /\ sub_node' \in Orderings(sub_node) \ {sub_node}
  /\ looks_changed' = "unset"
  /\ UNCHANGED <<mainVars, batchVars, callVars, hashed_node, stored>>

\* lines 130-138: update_recs[type]
CompareHash ==
  /\ stored # NoneField
  /\ looks_changed = "unset"
  /\ looks_changed' = IF recordset_hash(sub_node) # stored THEN "yes" ELSE "no"
  /\ UNCHANGED <<mainVars, batchVars, callVars, sub_node, hashed_node, stored>>

HashNext == StoreHash \/ Reload \/ CompareHash

HashSpec == HashInit /\ [][HashNext]_vars

\* C27: hash stability: a collection loaded with the properties of its
\* records or its records in another insertion order has the hash it had,
\* and so never looks changed against its Ledger field
C27_HashStable ==
  (stored # NoneField /\ ContentOf(sub_node) = ContentOf(hashed_node))
    => /\ recordset_hash(sub_node) = recordset_hash(hashed_node)
       /\ looks_changed # "yes"

C27_Witness ==
  /\ looks_changed = "no"
  /\ Len(sub_node) = 2
  /\ sub_node[1].k = hashed_node[2].k
  /\ sub_node[1].v # hashed_node[2].v

\* C28: get_create_model is a get-or-create: a reconciliation of an entity
\* type whose model already exists in the dataset, with no remote call
\* failing, gets the existing model back and does not end in an exception
C28_GetOrCreate ==
  [][(pc = "add_data" /\ NoForce /\ Listed(Key)
        /\ ModelsOfType(RecTypes[ti]) \subseteq plat[Key].models
        /\ faults' = faults)
       => pc' # "except"]_vars

\* the call of add_record_links entered at i went through every property at e
LinksOf(i, e) ==
  /\ i < e
  /\ calls[i].kind = "links_begin"
  /\ calls[e].kind = "links_end"
  /\ \A n \in (i + 1)..(e - 1) : calls[n].kind \notin {"links_begin", "links_end"}

\* the records the lookups and placeholders between i and e came up with
ResolvedBetween(i, e) ==
  UNION {IF calls[n].kind = "resolved" THEN calls[n].items
         ELSE IF calls[n].kind = "create_record" THEN {calls[n].rec}
         ELSE {} : n \in (i + 1)..(e - 1)}

\* the create_links call that follows e, if any
LinksCallAfter(e) ==
  IF e < Len(calls) /\ calls[e + 1].kind = "create_links" THEN {calls[e + 1]} ELSE {}

\* C29: a call of add_record_links issues at most one create_links call, for
\* its own record, after all its properties were gone through and carrying
\* every target that was resolved for any of them; it issues none when no
\* target was resolved
C29_OneLinksCallPerRecord ==
  /\ \A j \in 1..Len(calls) :
       calls[j].kind = "create_links"
         => /\ j > 1 /\ calls[j - 1].kind = "links_end"
            /\ calls[j - 1].rec = calls[j].rec /\ calls[j - 1].model = calls[j].model
  /\ \A i, e \in 1..Len(calls) :
       LinksOf(i, e)
         => LinksCallAfter(e) =
              IF ResolvedBetween(i, e) = {} THEN {}
              ELSE {[kind |-> "create_links", model |-> calls[i].model,
                     rec |-> calls[i].rec, items |-> ResolvedBetween(i, e)]}

\* a record with two linked properties got both targets in one call, and
\* another call of add_record_links resolved nothing and issued no call
C29_Witness ==
  /\ pc = "add_tags"
  /\ \E i, e \in 1..Len(calls) :
       /\ LinksOf(i, e)
       /\ Cardinality({n \in (i + 1)..(e - 1) : calls[n].kind = "resolved"}) >= 2
       /\ Cardinality(ResolvedBetween(i, e)) >= 2
       /\ LinksCallAfter(e) # {}
  /\ \E i, e \in 1..Len(calls) :
       /\ LinksOf(i, e)
       /\ ResolvedBetween(i, e) = {}
       /\ LinksCallAfter(e) = {}

\* the relationships of a document's summary that list terms
TermRels(node) ==
  {rel \in Range(node.links.rels) : rel.target = "term" /\ rel.ids # <<>>}

\* the relate_to call at place j has among its targets a record for the term
\* id n: the record an earlier lookup of n returned, or the placeholder made
\* for n
RecordFor(n, j) ==
  \E m \in 1..(j - 1) :
    /\ calls[m].model = "term"
    /\ \/ /\ calls[m].kind = "resolved"
          /\ calls[m].rec = n
          /\ calls[m].items # {}
          /\ calls[m].items \subseteq calls[j].items
       \/ /\ calls[m].kind = "create_record"
          /\ calls[m].items = {n}
          /\ calls[m].rec \in calls[j].items

\* C30: when the link phase went through the relationships of a record (the
\* summary record, found at place i), every relationship that lists terms
\* got a relate_to call whose targets hold a record for every listed term
\* id, a placeholder where the id could not be resolved, also for an id the
\* term collection of the snapshot does not hold
C30_EveryTermRelated ==
  pc = "add_tags"
    => \A i \in 1..Len(calls) :
         (calls[i].kind = "resolved" /\ calls[i].model = "summary" /\ calls[i].items # {})
           => \A rel \in TermRels(newJson[Key]) :
                \E j \in (i + 1)..Len(calls) :
                  /\ calls[j].kind = "relate_to"
                  /\ calls[j].model = "summary"
                  /\ calls[j].rec \in calls[i].items
                  /\ \A n \in Range(rel.ids) : RecordFor(n, j)

\* C31: within the processing of one dataset the resolver lists the records
\* of an entity type at most once, also when the listing comes back empty
C31_ListedOnce ==
  \A i, j \in 1..Len(calls) :
    (calls[i].kind = "get_all" /\ calls[j].kind = "get_all"
       /\ calls[i].model = calls[j].model)
      => i = j

\* C32: every key of RunCache is a local id (or the label of a placeholder),
\* never the platform id of a record
C32_CacheKeyedByLocalId ==
  \A m \in DOMAIN record_cache :
    \A i \in 1..Len(record_cache[m]) : record_cache[m][i].k[1] = "lid"

\* the models whose records update_records creates from a keyed collection
CollectionModels ==
  {"protocol", "term", "researcher", "human_subject", "animal_subject", "sample", "award"}

\* C33: every record update_records created in this run stores as its
\* recordHash the content hash of the local record it was created from
C33_RecordHashStored ==
  \A k \in KeySet :
    \A r \in plat[k].recs \ plat0[k].recs :
      (r.model \in CollectionModels
         /\ r.lid \in DOMAIN Snapshot[k][map_target_to_json_model(r.model)])
        => r.hash = Snapshot[k][map_target_to_json_model(r.model)][r.lid].hash

\* C34: when update_records has made its create_records calls, every staged
\* record was given to exactly one of them and no call got an empty batch,
\* for every number of staged records
C34_EveryStagedOnce ==
  Len(create_calls) = Len(Calls(record_list))
    => /\ \A n \in 1..record_list :
            Cardinality({i \in 1..Len(create_calls) :
                           create_calls[i][1] <= n /\ n <= create_calls[i][2]}) = 1
       /\ \A i \in 1..Len(create_calls) : SliceSize(create_calls[i]) > 0

\* C35: a dataset that has a Ledger record keeps exactly that one: the run
\* finds it and creates no second Ledger record for the same dataset id,
\* wherever the record stands among the Ledger records of the platform
C35_OneLedgerRecord ==
  \A k \in KeySet :
    LedgerRecs(ledger0, k) # {}
      => Cardinality(LedgerRecs(ledger, k)) = Cardinality(LedgerRecs(ledger0, k))

\* C36: every id the run appends to the Progress Ledger is the snapshot key
\* of the dataset processed, the id the resume filter compares against
C36_AppendedIsKey ==
  \A i \in 1..Len(resumeFile) : resumeFile[i] \in KeySet \cup Range(prevFile)

\* the summary records of a platform dataset
SummaryRecs(p) == {r \in p.recs : r.model = "summary"}

\* C37: one summary record. A dataset's summary model never holds more than
\* one record, and when the processing of a dataset in which add_summary was
\* called ends with no remote call having failed, the summary record the
\* dataset had before the run is gone and a record created by the run stands
\* in its place.
C37_OneSummaryRecord ==
  \A k \in KeySet :
    /\ Cardinality(SummaryRecs(plat[k])) <= 1
    /\ (pc = "append" /\ k = Key /\ faults = 0 /\ "summary" \in reconciled[k])
         => /\ SummaryRecs(plat[k]) \cap SummaryRecs(plat0[k]) = {}
            /\ SummaryRecs(plat[k]) # {}

\* C38: existing source records get their links. When the link phase has run
\* for a dataset of which only the term collection changed, add_record_links
\* was entered for every subject record the dataset holds for a subject of
\* the snapshot, whichever run created the record.
C38_ExistingSubjectsLinked ==
  (pc = "add_tags" /\ update_recs = [t \in TypeNames |-> t = "term"])
    => \A r \in plat[Key].recs :
         (r.model \in ModelsOfType("subject") /\ r.lid \in DOMAIN newJson[Key].subject)
           => \E i \in 1..Len(calls) :
                calls[i].kind = "links_begin" /\ calls[i].rec = r.rid

-----------------------------------------------------------------------------
(* bf_io.clear_model on its own: the model of a dataset with its records,  *)
(* counted; get_all(limit = n) hands out at most n records and             *)
(* delete_records deletes the records it is given                          *)

\* the most records of the model
MaxCount == 320

\* bf_io.py, line 204: n = 100
ClearBatch == 100

\* the records one get_all(limit = n) call hands out
Fetched(recs) == IF recs < ClearBatch THEN recs ELSE ClearBatch

ClearInit ==
  /\ Idle
  /\ record_list = 0
  /\ create_calls = <<>>
  /\ sub_node = <<>>
  /\ hashed_node = <<>>
  /\ stored = NoneField
  /\ looks_changed = "unset"
  /\ NoDelete
  /\ clear_pc = "start"
  /\ model_exists \in BOOLEAN
  /\ model_count \in 0..MaxCount
  /\ model_recs = IF model_exists THEN model_count ELSE 0
  /\ ~model_exists => model_count = 0
  /\ nr_batches = 0
  /\ batch_i = 0
  /\ deleted_with = 0

\* lines 198-202: ds.get_model raises, the function returns
ClearNoModel ==
  /\ clear_pc = "start"
  /\ ~model_exists
  /\ clear_pc' = "done"
  /\ UNCHANGED <<mainVars, batchVars, hashVars, deleteVars, model_exists, model_count,
                 model_recs, nr_batches, batch_i, deleted_with>>

\* lines 204-206: the number of batches, and whether the loop is entered
ClearEnter ==
  /\ clear_pc = "start"
  /\ model_exists
  /\ nr_batches' = model_count \div ClearBatch
  /\ batch_i' = 0
  /\ clear_pc' = IF nr_batches' > 1 THEN "loop" ELSE "last"
  /\ UNCHANGED <<mainVars, batchVars, hashVars, deleteVars, model_exists, model_count,
                 model_recs, deleted_with>>

\* lines 207-209: one round of the loop
ClearLoop ==
  /\ clear_pc = "loop"
  /\ model_recs' = model_recs - Fetched(model_recs)
  /\ batch_i' = batch_i + 1
  /\ clear_pc' = IF batch_i' < nr_batches THEN "loop" ELSE "last"
  /\ UNCHANGED <<mainVars, batchVars, hashVars, deleteVars, model_exists, model_count,
                 nr_batches, deleted_with>>

\* lines 211-212: the delete after the loop
ClearLast ==
  /\ clear_pc = "last"
  /\ model_recs' = model_recs - Fetched(model_recs)
  /\ clear_pc' = "delete"
  /\ UNCHANGED <<mainVars, batchVars, hashVars, deleteVars, model_exists, model_count,
                 nr_batches, batch_i, deleted_with>>

\* line 214: model.delete()
ClearDelete ==
  /\ clear_pc = "delete"
  /\ model_exists' = FALSE
  /\ deleted_with' = model_recs
  /\ clear_pc' = "done"
  /\ UNCHANGED <<mainVars, batchVars, hashVars, deleteVars, model_count, model_recs,
                 nr_batches, batch_i>>

ClearNext ==
  \/ ClearNoModel
  \/ ClearEnter
  \/ ClearLoop
  \/ ClearLast
  \/ ClearDelete

ClearSpec == ClearInit /\ [][ClearNext]_vars

\* C39: when clear_model deletes the model, the model holds no record any
\* more, whatever the number of its records was
C39_RecordsBeforeModel ==
  (clear_pc = "done" /\ ~model_exists) => deleted_with = 0

-----------------------------------------------------------------------------
(* sync_json.deleteData on its own, for a node that names one model: the   *)
(* records of the model node in dict order, the cache of the model and the *)
(* records the model holds on the platform                                 *)

\* the most records of a model node; their identifiers are 1..MaxNode
MaxNode == 3

\* the id of the platform record of an identifier
RecIdOf(identifier) == 10 + identifier

\* a record node: expired is recNode['expired'], values says that
\* recNode['values'] or recNode['arrayValues'] is not empty
RecNodes == [id : 1..MaxNode, expired : BOOLEAN, values : BOOLEAN]

\* the model nodes: dicts, so no identifier twice
ModelNodes ==
  {s \in UNION {[1..n -> RecNodes] : n \in 0..MaxNode} :
     \A i, j \in 1..Len(s) : s[i].id = s[j].id => i = j}

\* the caches of the model
Caches == UNION {[S -> {0}] : S \in SUBSET (1..MaxNode)}

DeleteInit ==
  /\ Idle
  /\ record_list = 0
  /\ create_calls = <<>>
  /\ sub_node = <<>>
  /\ hashed_node = <<>>
  /\ stored = NoneField
  /\ looks_changed = "unset"
  /\ NoClear
  /\ del_pc = "start"
  /\ log_bound \in BOOLEAN
  /\ node_expired \in BOOLEAN
  /\ modelNode \in ModelNodes
  /\ del_at = 0
  /\ oldRecs = <<>>
  /\ \E c \in Caches : recordCache = [i \in DOMAIN c |-> RecIdOf(i)]
  /\ cache0 = recordCache
  /\ remote = {RecIdOf(i) : i \in 1..MaxNode}

\* a call of log.info, log.debug or log.warning: a NameError when the module
\* has no global named log
LogCall(next) == IF log_bound THEN next ELSE "raised"

\* lines 6-10: the dataset is expired, the caches are cleared
DelUntrack ==
  /\ del_pc = "start"
  /\ node_expired
  /\ del_pc' = LogCall("done")
  /\ recordCache' = IF log_bound THEN [i \in {} |-> 0] ELSE recordCache
  /\ UNCHANGED <<mainVars, batchVars, hashVars, clearVars, log_bound, node_expired,
                 modelNode, del_at, oldRecs, cache0, remote>>

\* lines 11-13: the model node is entered
DelEnter ==
  /\ del_pc = "start"
  /\ ~node_expired
  /\ del_pc' = "loop"
  /\ del_at' = 1
  /\ oldRecs' = <<>>
  /\ UNCHANGED <<mainVars, batchVars, hashVars, clearVars, log_bound, node_expired,
                 modelNode, recordCache, cache0, remote>>

\* the loop of line 14 is at a record node
AtRecNode == del_pc = "loop" /\ del_at <= Len(modelNode)

\* lines 15-19: the identifier is not in the cache
DelUnknown ==
  /\ AtRecNode
  /\ modelNode[del_at].id \notin DOMAIN recordCache
  /\ del_pc' = LogCall("loop")
  /\ del_at' = IF log_bound THEN del_at + 1 ELSE del_at
  /\ UNCHANGED <<mainVars, batchVars, hashVars, clearVars, log_bound, node_expired,
                 modelNode, oldRecs, recordCache, cache0, remote>>

\* lines 20-23: an expired record is noted in oldRecs
DelExpired ==
  /\ AtRecNode
  /\ modelNode[del_at].id \in DOMAIN recordCache
  /\ modelNode[del_at].expired
  /\ del_pc' = LogCall("loop")
  /\ del_at' = IF log_bound THEN del_at + 1 ELSE del_at
  /\ oldRecs' = IF log_bound THEN Append(oldRecs, modelNode[del_at].id) ELSE oldRecs
  /\ UNCHANGED <<mainVars, batchVars, hashVars, clearVars, log_bound, node_expired,
                 modelNode, recordCache, cache0, remote>>

\* lines 24-25: a record that stays and loses no property
DelKeep ==
  /\ AtRecNode
  /\ modelNode[del_at].id \in DOMAIN recordCache
  /\ ~modelNode[del_at].expired
  /\ ~modelNode[del_at].values
  /\ del_at' = del_at + 1
  /\ UNCHANGED <<mainVars, batchVars, hashVars, clearVars, del_pc, log_bound, node_expired,
                 modelNode, oldRecs, recordCache, cache0, remote>>

\* removeRecords, lines 36-43: the identifiers popped from the cache
Popped(cache, names) == {names[i] : i \in 1..Len(names)} \cap DOMAIN cache

\* lines 24-31 with removeRecords, lines 33-49: a record that stays loses
\* properties, and the records noted in oldRecs so far are removed from the
\* cache and deleted
DelProps ==
  /\ AtRecNode
  /\ modelNode[del_at].id \in DOMAIN recordCache
  /\ ~modelNode[del_at].expired
  /\ modelNode[del_at].values
  /\ del_pc' = LogCall("loop")
  /\ del_at' = IF log_bound THEN del_at + 1 ELSE del_at
  /\ recordCache' = IF log_bound
                    THEN [i \in DOMAIN recordCache \ Popped(recordCache, oldRecs)
                            |-> recordCache[i]]
                    ELSE recordCache
  /\ remote' = IF log_bound
               THEN remote \ {recordCache[i] : i \in Popped(recordCache, oldRecs)}
               ELSE remote
  /\ UNCHANGED <<mainVars, batchVars, hashVars, clearVars, log_bound, node_expired,
                 modelNode, oldRecs, cache0>>

\* the loops are over, deleteData returns
DelReturn ==
  /\ del_pc = "loop"
  /\ del_at > Len(modelNode)
  /\ del_pc' = "done"
  /\ UNCHANGED <<mainVars, batchVars, hashVars, clearVars, log_bound, node_expired,
                 modelNode, del_at, oldRecs, recordCache, cache0, remote>>

DeleteNext ==
  \/ DelUntrack
  \/ DelEnter
  \/ DelUnknown
  \/ DelExpired
  \/ DelKeep
  \/ DelProps
  \/ DelReturn

DeleteSpec == DeleteInit /\ [][DeleteNext]_vars

\* C40: when deleteData has returned for a dataset that is not expired, every
\* record the model node marks as expired and whose identifier was in the
\* cache is deleted on the platform and gone from the cache
C40_ExpiredDeleted ==
  (del_pc = "done" /\ ~node_expired)
    => \A i \in 1..Len(modelNode) :
         (modelNode[i].expired /\ modelNode[i].id \in DOMAIN cache0)
           => /\ cache0[modelNode[i].id] \notin remote
              /\ modelNode[i].id \notin DOMAIN recordCache

====
